---- MODULE Spec2Model ----
(***************************************************************************)
(* Move-search kernel of betatetris-tablebase (src/src/move_search.h).     *)
(*                                                                         *)
(* Conventions taken from the source:                                      *)
(*  - a Board bit that is SET means the cell is EMPTY (Contains() checks   *)
(*    that every mask bit is set in the board; FindLockRow is documented   *)
(*    "given (col & 1<<row) != 0");                                        *)
(*  - a Column (uint32_t) and a Frames (uint64_t) value are modelled as the*)
(*    set of indices of their set bits, so that the 32/64-bit width is     *)
(*    kept (shifts drop the bits that leave the word, + wraps);            *)
(*  - Position is (rot, row, col), written <<rot, row, col>>.              *)
(***************************************************************************)
EXTENDS Integers, Sequences, FiniteSets, TLC

\* ------------------------------------------------------------------------
\* Levels and gravity timing
\* ------------------------------------------------------------------------
kLevel18 == "kLevel18"
kLevel19 == "kLevel19"
kLevel29 == "kLevel29"
kLevel39 == "kLevel39"
Levels == {kLevel18, kLevel19, kLevel29, kLevel39}

Max2(a, b) == IF a >= b THEN a ELSE b
Min2(a, b) == IF a <= b THEN a ELSE b

\* GetRow with the divisors of the levels 18 and 19 exchanged
GetRow_Swapped(frame, level) ==
  CASE level = kLevel18 -> frame \div 2
    [] level = kLevel19 -> frame \div 3
    [] level = kLevel29 -> frame
    [] level = kLevel39 -> frame * 2

GetRow(frame, level) ==
  CASE level = kLevel18 -> frame \div 3
    [] level = kLevel19 -> frame \div 2
    [] level = kLevel29 -> frame
    [] level = kLevel39 -> frame * 2

IsDropFrame(frame, level) ==
  CASE level = kLevel18 -> frame % 3 = 2
    [] level = kLevel19 -> frame % 2 = 1
    [] OTHER -> TRUE

GetFirstFrameOnRow(row, level) ==
  CASE level = kLevel18 -> row * 3
    [] level = kLevel19 -> row * 2
    [] level = kLevel29 -> row
    [] level = kLevel39 -> (row + 1) \div 2

\* GetLastFrameOnRow counting a fourth frame on every row of level 18
GetLastFrameOnRow_Next(row, level) ==
  CASE level = kLevel18 -> row * 3 + 3
    [] level = kLevel19 -> row * 2 + 1
    [] level = kLevel29 -> row
    [] level = kLevel39 -> row \div 2

\* GetLastFrameOnRow with level 39 falling through to the case of level 29
GetLastFrameOnRow_NoHalf(row, level) ==
  CASE level = kLevel18 -> row * 3 + 2
    [] level = kLevel19 -> row * 2 + 1
    [] level = kLevel29 -> row
    [] level = kLevel39 -> row

GetLastFrameOnRow(row, level) ==
  CASE level = kLevel18 -> row * 3 + 2
    [] level = kLevel19 -> row * 2 + 1
    [] level = kLevel29 -> row
    [] level = kLevel39 -> row \div 2

\* ------------------------------------------------------------------------
\* Tap schedules: TapTable turns the ten deltas into cumulative frames.
\* taps[k] of the source is TapAt(taps, k) (sequences are 1-based).
\* ------------------------------------------------------------------------
RECURSIVE PrefixSum(_, _)
PrefixSum(deltas, k) ==
  IF k = 0 THEN 0 ELSE PrefixSum(deltas, k - 1) + deltas[k]

\* the static_assert asking every delta, the first included, to be >= 2
TapTableValid_AllTwo(deltas) ==
  \A i \in 1..10 : deltas[i] >= 2

TapTableValid(deltas) ==
  /\ deltas[1] >= 0
  /\ \A i \in 2..10 : deltas[i] >= 2

TapTable(deltas) == [i \in 1..10 |-> PrefixSum(deltas, i)]

TapAt(taps, x) == taps[x + 1]

\* a schedule whose first tap is not on frame 0
TapDelayed == TapTable(<<3, 2, 2, 2, 2, 2, 2, 2, 2, 2>>)
Tap30Hz == TapTable(<<0, 2, 2, 2, 2, 2, 2, 2, 2, 2>>)
Tap20Hz == TapTable(<<0, 3, 3, 3, 3, 3, 3, 3, 3, 3>>)
Tap15Hz == TapTable(<<0, 4, 4, 4, 4, 4, 4, 4, 4, 4>>)
Tap12Hz == TapTable(<<0, 5, 5, 5, 5, 5, 5, 5, 5, 5>>)

\* ------------------------------------------------------------------------
\* Bit words as sets of bit indices
\* ------------------------------------------------------------------------
ColumnBits == 32
FramesBits == 64
NumRows == 20
NumCols == 10

Rows == 0..(NumRows - 1)
Cols == 0..(NumCols - 1)

SetMax(S) == CHOOSE x \in S : \A y \in S : y <= x

\* x << k and x >> k on a word of w bits
Shl(S, k, w) == IF k = 0 THEN S ELSE {i + k : i \in {j \in S : j + k < w}}
Shr(S, k) == IF k = 0 THEN S ELSE {i - k : i \in {j \in S : j >= k}}

\* ~x on a word of w bits
BitNot(S, w) == (0..(w - 1)) \ S

\* a + b modulo 2^w: the carry into bit i comes from a lower bit j where both
\* operands are set (generate), through bits where at least one is set
\* (propagate)
BitAdd(A, B, w) ==
  LET generate == A \cap B
      propagate == A \cup B
      CarryInto(i) ==
        \E j \in generate : j < i /\ \A k \in (j + 1)..(i - 1) : k \in propagate
  IN {i \in 0..(w - 1) : ((i \in A) # (i \in B)) # CarryInto(i)}

BitXor(A, B) == (A \ B) \cup (B \ A)

\* the set bits of a word in ascending order
SortedBits(S) == SelectSeq([k \in 1..FramesBits |-> k - 1], LAMBDA b : b \in S)

\* pdep: bit k of src goes to the position of the k-th set bit of the mask
Pdep(src, maskbits) ==
  {maskbits[k + 1] : k \in {j \in src : j < Len(maskbits)}}

\* pext: the bit of src at the k-th set bit of the mask goes to bit k
Pext(src, maskbits) ==
  {k \in 0..(Len(maskbits) - 1) : maskbits[k + 1] \in src}

\* 0x249249249249249: bits 0, 3, ..., 57
kMask18 == SortedBits({3 * i : i \in 0..19})
\* 0x5555555555: bits 0, 2, ..., 38
kMask19 == SortedBits({2 * i : i \in 0..19})
\* 0x55555: bits 0, 2, ..., 18
kMask39 == SortedBits({2 * i : i \in 0..9})

ColumnToNormalFrameMask(level, col) ==
  CASE level = kLevel18 ->
         LET expanded == Pdep(col, kMask18)
         IN expanded \cup Shl(expanded, 1, FramesBits) \cup Shl(expanded, 2, FramesBits)
    [] level = kLevel19 ->
         LET expanded == Pdep(col, kMask19)
         IN expanded \cup Shl(expanded, 1, FramesBits)
    [] level = kLevel29 -> col
    [] level = kLevel39 -> Pext(col, kMask39)

ColumnToDropFrameMask(level, col) ==
  IF level = kLevel39
  THEN Pext(col \cap Shr(col, 1) \cap Shr(col, 2), kMask39)
  ELSE LET mask == ColumnToNormalFrameMask(level, col)
       IN mask \cap Shr(mask, 1)

\* FramesToColumn with the level-19 frames shifted by 2 instead of 1
FramesToColumn_Shift2(level, frames) ==
  CASE level = kLevel18 ->
         Pext(frames \cup Shr(frames, 1) \cup Shr(frames, 2), kMask18)
    [] level = kLevel19 ->
         Pext(frames \cup Shr(frames, 2), kMask19)
    [] level = kLevel29 -> frames \cap (0..(ColumnBits - 1))
    [] level = kLevel39 -> Pdep(frames, kMask39)

FramesToColumn(level, frames) ==
  CASE level = kLevel18 ->
         Pext(frames \cup Shr(frames, 1) \cup Shr(frames, 2), kMask18)
    [] level = kLevel19 ->
         Pext(frames \cup Shr(frames, 1), kMask19)
    [] level = kLevel29 -> frames \cap (0..(ColumnBits - 1))
    [] level = kLevel39 -> Pdep(frames, kMask39)

\* FindLockRow without the final - 1: the row of the highest bit that changed
FindLockRow_HighBit(col, start_row) ==
  SetMax(BitXor(col, BitAdd(col, {start_row}, ColumnBits)))

\* 31 - clz(col ^ (col + (1 << start_row))) - 1
FindLockRow(col, start_row) ==
  SetMax(BitXor(col, BitAdd(col, {start_row}, ColumnBits))) - 1

\* ------------------------------------------------------------------------
\* Boards.  A Board is modelled by its columns: b[col] is Board::Column(col),
\* the set of rows whose bit is set (the empty cells).  A rotation-board
\* array is a function rot -> Board.  A mask is the set of the cells
\* <<rot, row, col>> that Board::Set marked in a std::array<Board, R>.
\* ------------------------------------------------------------------------
StartCol == 5

Rots(R) == 0..(R - 1)

\* the function f itself, with every value computed once
Stored(f) == f @@ <<>>

\* Contains<R>(board, mask): every bit of mask is set in board
Contains(board, mask) ==
  \A cell \in mask : cell[2] \in board[cell[1]][cell[3]]

abs(x) == IF x < 0 THEN -x ELSE x
sgn(x) == IF x = 0 THEN 0 ELSE IF x > 0 THEN 1 ELSE -1

\* ------------------------------------------------------------------------
\* Phase1TableGen, first loop: what is recorded for the target (rot, col)
\* reached with rotation offset delta_rot from (initial_rot, initial_col).
\* ------------------------------------------------------------------------
DeltaRots(R) == IF R = 1 THEN {0} ELSE IF R = 2 THEN {0, 1} ELSE 0..3

Phase1Target(level, R, taps, initial_frame, initial_rot, initial_col, delta_rot, col) ==
  LET rot == (initial_rot + delta_rot) % R
      num_lr_tap == abs(col - initial_col)
      num_ab_tap == IF delta_rot = 3 THEN 1 ELSE delta_rot
      num_tap == Max2(num_ab_tap, num_lr_tap)
      start_frame == (IF num_tap = 0 THEN 0 ELSE TapAt(taps, num_tap - 1)) + initial_frame
      end_frame == TapAt(taps, num_tap) + initial_frame
      last_tap ==
        IF num_tap = 0 THEN {}
        ELSE (IF num_tap = num_lr_tap
              THEN (IF col > initial_col THEN {"kR"} ELSE {"kL"}) ELSE {})
             \cup
             (IF num_tap = num_ab_tap
              THEN (IF delta_rot = 3 THEN {"kB"} ELSE {"kA"}) ELSE {})
      start_row == GetRow(start_frame, level)
      start_col == IF num_tap = num_lr_tap THEN col - sgn(col - initial_col) ELSE col
      start_rot == IF num_tap = num_ab_tap
                   THEN ((IF delta_rot = 2 THEN 1 ELSE 0) + initial_rot) % R
                   ELSE rot
      nodrop == {<<start_rot, start_row, start_col>>,
                 <<start_rot, start_row, col>>,
                 <<rot, start_row, col>>}
      drops == UNION {
                 LET row == GetRow(frame, level)
                 IN {<<rot, row, col>>}
                    \cup (IF IsDropFrame(frame, level) THEN {<<rot, row + 1, col>>} ELSE {})
                    \cup (IF IsDropFrame(frame, level) /\ level = kLevel39
                          THEN {<<rot, row + 2, col>>} ELSE {})
                 : frame \in start_frame..(end_frame - 1)}
  IN IF start_row >= NumRows
     THEN [last_tap |-> last_tap, cannot_reach |-> TRUE, cannot_finish |-> FALSE,
           masks |-> {}, masks_nodrop |-> {}]
     ELSE IF GetRow(end_frame, level) >= NumRows
     THEN [last_tap |-> last_tap, cannot_reach |-> FALSE, cannot_finish |-> TRUE,
           masks |-> nodrop, masks_nodrop |-> nodrop]
     ELSE [last_tap |-> last_tap, cannot_reach |-> FALSE, cannot_finish |-> FALSE,
           masks |-> nodrop \cup drops, masks_nodrop |-> nodrop]

\* the arrays computed from the spawn column whatever initial_col is
Phase1Arrays_FromStart(level, R, taps, initial_frame, initial_rot, initial_col, rot, col) ==
  LET delta_rot == CHOOSE d \in DeltaRots(R) : (initial_rot + d) % R = rot
  IN Phase1Target(level, R, taps, initial_frame, initial_rot, StartCol, delta_rot, col)

\* the arrays masks/masks_nodrop/last_tap/cannot_reach/cannot_finish at [rot][col]
Phase1Arrays(level, R, taps, initial_frame, initial_rot, initial_col, rot, col) ==
  LET delta_rot == CHOOSE d \in DeltaRots(R) : (initial_rot + d) % R = rot
  IN Phase1Target(level, R, taps, initial_frame, initial_rot, initial_col, delta_rot, col)

\* Push that records the index of the new entry as its prev
Push_OwnIndex(entries, info, rot, col, prev, num_taps) ==
  IF info.cannot_reach THEN entries
  ELSE Append(entries,
         [rot |-> rot, col |-> col, prev |-> Len(entries), num_taps |-> num_taps,
          cannot_finish |-> info.cannot_finish,
          masks |-> info.masks, masks_nodrop |-> info.masks_nodrop])

\* Push: append an entry unless the target is marked cannot_reach
Push(entries, info, rot, col, prev, num_taps) ==
  IF info.cannot_reach THEN entries
  ELSE Append(entries,
         [rot |-> rot, col |-> col, prev |-> prev, num_taps |-> num_taps,
          cannot_finish |-> info.cannot_finish,
          masks |-> info.masks, masks_nodrop |-> info.masks_nodrop])

\* Phase1Successors where a third A may follow two
Phase1Successors_TripleA(R, e, last) ==
  LET rot == e.rot
      col == e.col
      ntaps == e.num_taps
      should_l == col > 0 /\ (ntaps = 0 \/ "kL" \in last)
      should_r == col < 9 /\ (ntaps = 0 \/ "kR" \in last)
      should_a == (R > 1 /\ ntaps = 0) \/ (R = 4 /\ ntaps \in {1, 2} /\ "kA" \in last)
      should_b == R = 4 /\ ntaps = 0
      side(nrot) == (IF should_l THEN <<(<<nrot, col - 1>>)>> ELSE <<>>)
                    \o (IF should_r THEN <<(<<nrot, col + 1>>)>> ELSE <<>>)
      turn(nrot) == <<(<<nrot, col>>)>> \o side(nrot)
  IN side(rot)
     \o (IF should_a THEN turn((rot + 1) % R) ELSE <<>>)
     \o (IF should_b THEN turn((rot + 3) % R) ELSE <<>>)

\* Phase1Successors where the second A follows any first tap
Phase1Successors_AnyA(R, e, last) ==
  LET rot == e.rot
      col == e.col
      ntaps == e.num_taps
      should_l == col > 0 /\ (ntaps = 0 \/ "kL" \in last)
      should_r == col < 9 /\ (ntaps = 0 \/ "kR" \in last)
      should_a == (R > 1 /\ ntaps = 0) \/ (R = 4 /\ ntaps = 1)
      should_b == R = 4 /\ ntaps = 0
      side(nrot) == (IF should_l THEN <<(<<nrot, col - 1>>)>> ELSE <<>>)
                    \o (IF should_r THEN <<(<<nrot, col + 1>>)>> ELSE <<>>)
      turn(nrot) == <<(<<nrot, col>>)>> \o side(nrot)
  IN side(rot)
     \o (IF should_a THEN turn((rot + 1) % R) ELSE <<>>)
     \o (IF should_b THEN turn((rot + 3) % R) ELSE <<>>)

\* Phase1Successors without the taps to the left
Phase1Successors_NoL(R, e, last) ==
  LET rot == e.rot
      col == e.col
      ntaps == e.num_taps
      should_r == col < 9 /\ (ntaps = 0 \/ "kR" \in last)
      should_a == (R > 1 /\ ntaps = 0) \/ (R = 4 /\ ntaps = 1 /\ "kA" \in last)
      should_b == R = 4 /\ ntaps = 0
      side(nrot) == IF should_r THEN <<(<<nrot, col + 1>>)>> ELSE <<>>
      turn(nrot) == <<(<<nrot, col>>)>> \o side(nrot)
  IN side(rot)
     \o (IF should_a THEN turn((rot + 1) % R) ELSE <<>>)
     \o (IF should_b THEN turn((rot + 3) % R) ELSE <<>>)

\* the targets pushed from entry number cur, in the order of the source
Phase1Successors(R, e, last) ==
  LET rot == e.rot
      col == e.col
      ntaps == e.num_taps
      should_l == col > 0 /\ (ntaps = 0 \/ "kL" \in last)
      should_r == col < 9 /\ (ntaps = 0 \/ "kR" \in last)
      should_a == (R > 1 /\ ntaps = 0) \/ (R = 4 /\ ntaps = 1 /\ "kA" \in last)
      should_b == R = 4 /\ ntaps = 0
      side(nrot) == (IF should_l THEN <<(<<nrot, col - 1>>)>> ELSE <<>>)
                    \o (IF should_r THEN <<(<<nrot, col + 1>>)>> ELSE <<>>)
      turn(nrot) == <<(<<nrot, col>>)>> \o side(nrot)
  IN side(rot)
     \o (IF should_a THEN turn((rot + 1) % R) ELSE <<>>)
     \o (IF should_b THEN turn((rot + 3) % R) ELSE <<>>)

RECURSIVE PushAll(_, _, _, _, _, _, _, _, _, _)
PushAll(entries, targets, k, prev, num_taps, level, R, taps, initial_frame, init) ==
  IF k > Len(targets) THEN entries
  ELSE PushAll(
         Push(entries,
              Phase1Arrays(level, R, taps, initial_frame, init[1], init[2],
                           targets[k][1], targets[k][2]),
              targets[k][1], targets[k][2], prev, num_taps),
         targets, k + 1, prev, num_taps, level, R, taps, initial_frame, init)

RECURSIVE Phase1Loop(_, _, _, _, _, _, _)
Phase1Loop(entries, cur, level, R, taps, initial_frame, init) ==
  IF cur >= Len(entries) THEN entries
  ELSE LET e == entries[cur + 1]
           last == Phase1Arrays(level, R, taps, initial_frame, init[1], init[2],
                                e.rot, e.col).last_tap
       IN Phase1Loop(
            PushAll(entries, Phase1Successors(R, e, last), 1, cur, e.num_taps + 1,
                    level, R, taps, initial_frame, init),
            cur + 1, level, R, taps, initial_frame, init)

\* Phase1TableGen: the entries written (entries[0..sz)), as a sequence
Phase1TableGen(level, R, taps, initial_frame, initial_rot, initial_col) ==
  Phase1Loop(
    Push(<<>>,
         Phase1Arrays(level, R, taps, initial_frame, initial_rot, initial_col,
                      initial_rot, initial_col),
         initial_rot, initial_col, 0, 0),
    0, level, R, taps, initial_frame, <<initial_rot, initial_col>>)

\* ------------------------------------------------------------------------
\* Tuck types and tuck masks (double_tuck is the DOUBLE_TUCK build option)
\* ------------------------------------------------------------------------
TuckTypes(R, double_tuck) ==
  (IF R = 1 THEN 2 ELSE IF R = 2 THEN 7 ELSE 12) + (IF double_tuck THEN 2 ELSE 0)

TuckType(dr, dc, df) == [delta_rot |-> dr, delta_col |-> dc, delta_frame |-> df]

\* TuckTypeTable<R>::table, entry i at position i + 1
TuckTypeTable(R, double_tuck) ==
  <<TuckType(0, -1, 0), TuckType(0, 1, 0)>>
  \o (IF double_tuck THEN <<TuckType(0, -2, 2), TuckType(0, 2, 2)>> ELSE <<>>)
  \o (IF R = 1 THEN <<>>
      ELSE <<TuckType(1, 0, 0), TuckType(1, -1, 0), TuckType(1, 1, 0),
             TuckType(1, -1, 1), TuckType(1, 1, 1)>>)
  \o (IF R = 4
      THEN <<TuckType(3, 0, 0), TuckType(3, -1, 0), TuckType(3, 1, 0),
             TuckType(3, -1, 1), TuckType(3, 1, 1)>>
      ELSE <<>>)

\* GetTuckMasks: ret[i][rot][col] for frame masks m
TuckMaskAt(R, double_tuck, m, i, rot, col) ==
  LET x == IF double_tuck THEN 2 ELSE 0
      j == IF i < 2 THEN i ELSE IF i < 2 + x THEN -1 ELSE i - x
      nrot == IF j >= 7 THEN (rot + 3) % R ELSE (rot + 1) % R
      left == IF col > 0 THEN m.frame[rot][col] \cap m.frame[rot][col - 1] ELSE {}
      right == IF col < 9 THEN m.frame[rot][col] \cap m.frame[rot][col + 1] ELSE {}
  IN CASE j = 0 -> left
       [] j = 1 -> right
       [] j = -1 /\ i = 2 ->
            IF col > 1
            THEN m.frame[rot][col] \cap m.drop[rot][col - 1]
                 \cap Shr(m.drop[rot][col - 1], 1) \cap Shr(m.frame[rot][col - 2], 2)
            ELSE {}
       [] j = -1 /\ i = 3 ->
            IF col < 8
            THEN m.frame[rot][col] \cap m.drop[rot][col + 1]
                 \cap Shr(m.drop[rot][col + 1], 1) \cap Shr(m.frame[rot][col + 2], 2)
            ELSE {}
       [] j \in {2, 7} -> m.frame[rot][col] \cap m.frame[nrot][col]
       [] j \in {3, 8} -> IF col > 0 THEN left \cap m.frame[nrot][col - 1] ELSE {}
       [] j \in {4, 9} -> IF col < 9 THEN right \cap m.frame[nrot][col + 1] ELSE {}
       [] j \in {5, 10} ->
            IF col > 0
            THEN m.frame[rot][col]
                 \cap (m.drop[nrot][col] \cup m.drop[rot][col - 1])
                 \cap Shr(m.frame[nrot][col - 1], 1)
            ELSE {}
       [] j \in {6, 11} ->
            IF col < 9
            THEN m.frame[rot][col]
                 \cap (m.drop[nrot][col] \cup m.drop[rot][col + 1])
                 \cap Shr(m.frame[nrot][col + 1], 1)
            ELSE {}

GetTuckMasks(R, double_tuck, m) ==
  Stored([i \in 1..TuckTypes(R, double_tuck) |->
     Stored([rot \in Rots(R) |-> Stored([col \in Cols |->
        TuckMaskAt(R, double_tuck, m, i - 1, rot, col)])])])

\* the frame masks MoveSearch builds from the columns of the board
GetFrameMasks(level, R, board) ==
  [frame |-> Stored([rot \in Rots(R) |-> Stored([col \in Cols |->
                ColumnToNormalFrameMask(level, board[rot][col])])]),
   drop |-> Stored([rot \in Rots(R) |-> Stored([col \in Cols |->
                ColumnToDropFrameMask(level, board[rot][col])])])]

\* ------------------------------------------------------------------------
\* RunPhase2
\* ------------------------------------------------------------------------
\* tuck_result[rot][col] after the loop over the tuck types
TuckResult(R, double_tuck, tuck_masks, can_tuck_frame_masks, rot, col) ==
  LET tucks == TuckTypeTable(R, double_tuck)
  IN UNION {
       LET tuck == tucks[i]
           from_col == col - tuck.delta_col
       IN IF from_col \in Cols
          THEN UNION {
                 Shl(tuck_masks[i][from_rot][from_col]
                       \cap can_tuck_frame_masks[<<from_rot, from_col>>],
                     tuck.delta_frame, FramesBits)
                 : from_rot \in {r \in Rots(R) : (r + tuck.delta_rot) % R = rot}}
          ELSE {}
       : i \in 1..TuckTypes(R, double_tuck)}

\* TuckLockPositions without the mask ~lock_positions_without_tuck
TuckLockPositions_NoLock(level, cur, tuck_result, lock) ==
  LET after_tuck_positions == FramesToColumn(level, tuck_result)
  IN Shr(BitAdd(after_tuck_positions, cur, ColumnBits), 1)
     \cap (cur \cap Shr(BitNot(cur, ColumnBits), 1))

\* TuckLockPositions with after_tuck_positions | cur in place of the sum
TuckLockPositions_NoCarry(level, cur, tuck_result, lock) ==
  LET after_tuck_positions == FramesToColumn(level, tuck_result)
  IN (Shr(after_tuck_positions \cup cur, 1)
      \cap (cur \cap Shr(BitNot(cur, ColumnBits), 1)))
     \ lock

\* TuckLockPositions without the mask of the resting rows (cur & ~cur >> 1)
TuckLockPositions_NoFloor(level, cur, tuck_result, lock) ==
  LET after_tuck_positions == FramesToColumn(level, tuck_result)
  IN Shr(BitAdd(after_tuck_positions, cur, ColumnBits), 1) \ lock

TuckLockPositions(level, cur, tuck_result, lock) ==
  LET after_tuck_positions == FramesToColumn(level, tuck_result)
  IN (Shr(BitAdd(after_tuck_positions, cur, ColumnBits), 1)
      \cap (cur \cap Shr(BitNot(cur, ColumnBits), 1)))
     \ lock

\* the positions inserted for (rot, col) number k, by ascending row (ctz)
Phase2Insert(k, level, R, double_tuck, board, tuck_masks, lock, can_tuck) ==
  LET rot == k \div NumCols
      col == k % NumCols
      rows == SortedBits(
                TuckLockPositions(level, board[rot][col],
                  TuckResult(R, double_tuck, tuck_masks, can_tuck, rot, col),
                  lock[<<rot, col>>]))
  IN [n \in 1..Len(rows) |-> <<rot, rows[n], col>>]

\* the positions inserted for (rot, col) numbers lo..hi, in that order
RECURSIVE Phase2Loop(_, _, _, _, _, _, _, _, _)
Phase2Loop(lo, hi, level, R, double_tuck, board, tuck_masks, lock, can_tuck) ==
  IF lo > hi THEN <<>>
  ELSE IF lo = hi
  THEN Phase2Insert(lo, level, R, double_tuck, board, tuck_masks, lock, can_tuck) \o <<>>
  ELSE LET mid == (lo + hi) \div 2
       IN Phase2Loop(lo, mid, level, R, double_tuck, board, tuck_masks, lock, can_tuck)
          \o Phase2Loop(mid + 1, hi, level, R, double_tuck, board, tuck_masks, lock, can_tuck)

RunPhase2(positions, level, R, double_tuck, board, tuck_masks, lock, can_tuck) ==
  positions
  \o Phase2Loop(0, R * NumCols - 1, level, R, double_tuck, board, tuck_masks, lock, can_tuck)

\* ------------------------------------------------------------------------
\* Search::DoOneSearch
\* ------------------------------------------------------------------------
TotalFrames(level) == GetLastFrameOnRow(NumRows - 1, level) + 1

\* Phase1Table: the initial table, and the start frame and table of anchor i
InitialTable(level, R, taps) == Phase1TableGen(level, R, taps, 0, 0, StartCol)

\* the start frame of an adjustment as adj_frame + taps[num_taps]
AdjFrameStart_Sum(adj_frame, taps, entry) == adj_frame + TapAt(taps, entry.num_taps)

AdjFrameStart(adj_frame, taps, entry) == Max2(adj_frame, TapAt(taps, entry.num_taps))

AdjTable(level, R, adj_frame, taps, entry) ==
  Phase1TableGen(level, R, taps, AdjFrameStart(adj_frame, taps, entry), entry.rot, entry.col)

\* ReachSweep that does not look at can_continue[entry.prev]
RECURSIVE ReachSweep_NoPrev(_, _, _, _, _)
ReachSweep_NoPrev(entries, board, i, can_continue, can_reach) ==
  IF i >= Len(entries) THEN [can_continue |-> can_continue, can_reach |-> can_reach]
  ELSE LET entry == entries[i + 1]
       IN IF ~entry.cannot_finish /\ Contains(board, entry.masks)
          THEN ReachSweep_NoPrev(entries, board, i + 1, can_continue \cup {i},
                                 can_reach \cup {i})
          ELSE IF ~Contains(board, entry.masks_nodrop)
          THEN ReachSweep_NoPrev(entries, board, i + 1, can_continue, can_reach)
          ELSE ReachSweep_NoPrev(entries, board, i + 1, can_continue, can_reach \cup {i})

\* ReachSweep that takes the root entry as reached without looking at the board
RECURSIVE ReachSweep_RootUnchecked(_, _, _, _, _)
ReachSweep_RootUnchecked(entries, board, i, can_continue, can_reach) ==
  IF i >= Len(entries) THEN [can_continue |-> can_continue, can_reach |-> can_reach]
  ELSE LET entry == entries[i + 1]
       IN IF i = 0
          THEN ReachSweep_RootUnchecked(entries, board, 1, {0}, {0})
          ELSE IF entry.prev \notin can_continue
          THEN ReachSweep_RootUnchecked(entries, board, i + 1, can_continue, can_reach)
          ELSE IF ~entry.cannot_finish /\ Contains(board, entry.masks)
          THEN ReachSweep_RootUnchecked(entries, board, i + 1, can_continue \cup {i},
                                        can_reach \cup {i})
          ELSE IF ~Contains(board, entry.masks_nodrop)
          THEN ReachSweep_RootUnchecked(entries, board, i + 1, can_continue, can_reach)
          ELSE ReachSweep_RootUnchecked(entries, board, i + 1, can_continue,
                                        can_reach \cup {i})

\* the sweep that marks can_continue and can_reach, entry i onwards; both
\* arrays are modelled by the set of the indices that hold true
RECURSIVE ReachSweep(_, _, _, _, _)
ReachSweep(entries, board, i, can_continue, can_reach) ==
  IF i >= Len(entries) THEN [can_continue |-> can_continue, can_reach |-> can_reach]
  ELSE LET entry == entries[i + 1]
       IN IF i # 0 /\ entry.prev \notin can_continue
          THEN ReachSweep(entries, board, i + 1, can_continue, can_reach)
          ELSE IF ~entry.cannot_finish /\ Contains(board, entry.masks)
          THEN ReachSweep(entries, board, i + 1, can_continue \cup {i}, can_reach \cup {i})
          ELSE IF ~Contains(board, entry.masks_nodrop)
          THEN ReachSweep(entries, board, i + 1, can_continue, can_reach)
          ELSE ReachSweep(entries, board, i + 1, can_continue, can_reach \cup {i})

\* LockStep that takes the row of the next tap's frame as start_row
LockStep_NextTap(entry, i, level, adj_frame, taps, is_adj, initial_frame, board) ==
  LET start_frame == TapAt(taps, entry.num_taps) + initial_frame
      start_row == GetRow(start_frame, level)
      end_frame == IF is_adj THEN TotalFrames(level)
                   ELSE Max2(adj_frame, TapAt(taps, entry.num_taps))
      lock_row == FindLockRow(board[entry.rot][entry.col], start_row)
      lock_frame == GetLastFrameOnRow(lock_row, level) + 1
      first_tuck_frame == initial_frame + TapAt(taps, entry.num_taps)
      last_tuck_frame == Min2(lock_frame, end_frame)
  IN [i |-> i,
      rc |-> <<entry.rot, entry.col>>,
      start_row |-> start_row,
      lock_row |-> lock_row,
      position |-> <<entry.rot, lock_row, entry.col>>,
      anchor |-> ~is_adj /\ lock_frame > end_frame,
      tuck_frames |-> IF last_tuck_frame > first_tuck_frame
                      THEN first_tuck_frame..(last_tuck_frame - 1) ELSE {}]

\* LockStep that flags the anchor on lock_frame >= end_frame
LockStep_AnchorGe(entry, i, level, adj_frame, taps, is_adj, initial_frame, board) ==
  LET start_frame == (IF entry.num_taps = 0 THEN 0 ELSE TapAt(taps, entry.num_taps - 1))
                     + initial_frame
      start_row == GetRow(start_frame, level)
      end_frame == IF is_adj THEN TotalFrames(level)
                   ELSE Max2(adj_frame, TapAt(taps, entry.num_taps))
      lock_row == FindLockRow(board[entry.rot][entry.col], start_row)
      lock_frame == GetLastFrameOnRow(lock_row, level) + 1
      first_tuck_frame == initial_frame + TapAt(taps, entry.num_taps)
      last_tuck_frame == Min2(lock_frame, end_frame)
  IN [i |-> i,
      rc |-> <<entry.rot, entry.col>>,
      start_row |-> start_row,
      lock_row |-> lock_row,
      position |-> <<entry.rot, lock_row, entry.col>>,
      anchor |-> ~is_adj /\ lock_frame >= end_frame,
      tuck_frames |-> IF last_tuck_frame > first_tuck_frame
                      THEN first_tuck_frame..(last_tuck_frame - 1) ELSE {}]

\* what one iteration of the loop over the reached entries computes for entry i
LockStep(entry, i, level, adj_frame, taps, is_adj, initial_frame, board) ==
  LET start_frame == (IF entry.num_taps = 0 THEN 0 ELSE TapAt(taps, entry.num_taps - 1))
                     + initial_frame
      start_row == GetRow(start_frame, level)
      end_frame == IF is_adj THEN TotalFrames(level)
                   ELSE Max2(adj_frame, TapAt(taps, entry.num_taps))
      lock_row == FindLockRow(board[entry.rot][entry.col], start_row)
      lock_frame == GetLastFrameOnRow(lock_row, level) + 1
      first_tuck_frame == initial_frame + TapAt(taps, entry.num_taps)
      last_tuck_frame == Min2(lock_frame, end_frame)
  IN [i |-> i,
      rc |-> <<entry.rot, entry.col>>,
      start_row |-> start_row,
      lock_row |-> lock_row,
      position |-> <<entry.rot, lock_row, entry.col>>,
      anchor |-> ~is_adj /\ lock_frame > end_frame,
      \* (1ll << last_tuck_frame) - (1ll << first_tuck_frame), when it is assigned
      tuck_frames |-> IF last_tuck_frame > first_tuck_frame
                      THEN first_tuck_frame..(last_tuck_frame - 1) ELSE {}]

\* the iterations of the loop, in index order, for the entries in can_reach
LockSteps(entries, can_reach, level, adj_frame, taps, is_adj, initial_frame, board) ==
  LET reached == SelectSeq([k \in 1..Len(entries) |-> k - 1], LAMBDA i : i \in can_reach)
  IN [n \in 1..Len(reached) |->
        LockStep(entries[reached[n] + 1], reached[n], level, adj_frame, taps, is_adj,
                 initial_frame, board)] \o <<>>

\* LockLoop that sets the bit lock_row in every column of the rotation
LockLoop_LockRot(can_adj, steps, R) ==
  LET emitted == SelectSeq(steps, LAMBDA s : ~s.anchor)
      tucking(rc) == {n \in 1..Len(steps) : steps[n].rc = rc /\ steps[n].tuck_frames # {}}
  IN [can_adj |-> can_adj \cup {steps[n].i : n \in {m \in 1..Len(steps) : steps[m].anchor}},
      positions |-> [n \in 1..Len(emitted) |-> emitted[n].position] \o <<>>,
      lock_positions_without_tuck |->
        Stored([rc \in Rots(R) \X Cols |->
           {steps[n].lock_row : n \in {m \in 1..Len(steps) : steps[m].rc[1] = rc[1]}}]),
      can_tuck_frame_masks |->
        Stored([rc \in Rots(R) \X Cols |->
           IF tucking(rc) = {} THEN {} ELSE steps[SetMax(tucking(rc))].tuck_frames]),
      phase_2_possible |-> \E n \in 1..Len(steps) : steps[n].tuck_frames # {}]

\* LockLoop that sets the bit lock_row only with a tuck window
LockLoop_LockIfTuck(can_adj, steps, R) ==
  LET emitted == SelectSeq(steps, LAMBDA s : ~s.anchor)
      tucking(rc) == {n \in 1..Len(steps) : steps[n].rc = rc /\ steps[n].tuck_frames # {}}
  IN [can_adj |-> can_adj \cup {steps[n].i : n \in {m \in 1..Len(steps) : steps[m].anchor}},
      positions |-> [n \in 1..Len(emitted) |-> emitted[n].position] \o <<>>,
      lock_positions_without_tuck |->
        Stored([rc \in Rots(R) \X Cols |-> {steps[n].lock_row : n \in tucking(rc)}]),
      can_tuck_frame_masks |->
        Stored([rc \in Rots(R) \X Cols |->
           IF tucking(rc) = {} THEN {} ELSE steps[SetMax(tucking(rc))].tuck_frames]),
      phase_2_possible |-> \E n \in 1..Len(steps) : steps[n].tuck_frames # {}]

\* LockLoop that sets can_adj[i] for every reached entry
LockLoop_FlagAll(can_adj, steps, R) ==
  LET emitted == SelectSeq(steps, LAMBDA s : ~s.anchor)
      tucking(rc) == {n \in 1..Len(steps) : steps[n].rc = rc /\ steps[n].tuck_frames # {}}
  IN [can_adj |-> can_adj \cup {steps[n].i : n \in 1..Len(steps)},
      positions |-> [n \in 1..Len(emitted) |-> emitted[n].position] \o <<>>,
      lock_positions_without_tuck |->
        Stored([rc \in Rots(R) \X Cols |->
           {steps[n].lock_row : n \in {m \in 1..Len(steps) : steps[m].rc = rc}}]),
      can_tuck_frame_masks |->
        Stored([rc \in Rots(R) \X Cols |->
           IF tucking(rc) = {} THEN {} ELSE steps[SetMax(tucking(rc))].tuck_frames]),
      phase_2_possible |-> \E n \in 1..Len(steps) : steps[n].tuck_frames # {}]

\* LockLoop that inserts the position of an anchor as well
LockLoop_InsertAll(can_adj, steps, R) ==
  LET tucking(rc) == {n \in 1..Len(steps) : steps[n].rc = rc /\ steps[n].tuck_frames # {}}
  IN [can_adj |-> can_adj \cup {steps[n].i : n \in {m \in 1..Len(steps) : steps[m].anchor}},
      positions |-> [n \in 1..Len(steps) |-> steps[n].position] \o <<>>,
      lock_positions_without_tuck |->
        Stored([rc \in Rots(R) \X Cols |->
           {steps[n].lock_row : n \in {m \in 1..Len(steps) : steps[m].rc = rc}}]),
      can_tuck_frame_masks |->
        Stored([rc \in Rots(R) \X Cols |->
           IF tucking(rc) = {} THEN {} ELSE steps[SetMax(tucking(rc))].tuck_frames]),
      phase_2_possible |-> \E n \in 1..Len(steps) : steps[n].tuck_frames # {}]

\* the variables of DoOneSearch after the loop: can_adj[i] = true for the
\* anchors, Insert for the others in index order, |= on the lock bits, and the
\* last assignment to can_tuck_frame_masks[rot][col] wins
LockLoop(can_adj, steps, R) ==
  LET emitted == SelectSeq(steps, LAMBDA s : ~s.anchor)
      tucking(rc) == {n \in 1..Len(steps) : steps[n].rc = rc /\ steps[n].tuck_frames # {}}
  IN [can_adj |-> can_adj \cup {steps[n].i : n \in {m \in 1..Len(steps) : steps[m].anchor}},
      positions |-> [n \in 1..Len(emitted) |-> emitted[n].position] \o <<>>,
      lock_positions_without_tuck |->
        Stored([rc \in Rots(R) \X Cols |->
           {steps[n].lock_row : n \in {m \in 1..Len(steps) : steps[m].rc = rc}}]),
      can_tuck_frame_masks |->
        Stored([rc \in Rots(R) \X Cols |->
           IF tucking(rc) = {} THEN {} ELSE steps[SetMax(tucking(rc))].tuck_frames]),
      phase_2_possible |-> \E n \in 1..Len(steps) : steps[n].tuck_frames # {}]

\* the state of a pass that returned before doing anything
NoPass(R, can_adj) ==
  [ran |-> FALSE, can_adj |-> can_adj, positions |-> <<>>, num_phase1 |-> 0,
   can_continue |-> {}, can_reach |-> {},
   lock_positions_without_tuck |-> [rc \in Rots(R) \X Cols |-> {}],
   can_tuck_frame_masks |-> [rc \in Rots(R) \X Cols |-> {}],
   phase_2_possible |-> FALSE]

\* DoOneSearch<is_adj, initial_id>: positions is buf[0..sz) on return
DoOneSearch(level, R, adj_frame, taps, double_tuck, is_adj, initial_id, initial, board, tuck_masks, can_adj) ==
  LET initial_frame == IF is_adj
                       THEN AdjFrameStart(adj_frame, taps, initial[initial_id + 1])
                       ELSE 0
  IN IF initial_frame >= TotalFrames(level) THEN NoPass(R, can_adj)
     ELSE IF is_adj /\ initial_id \notin can_adj THEN NoPass(R, can_adj)
     ELSE
       LET entries == IF is_adj
                      THEN AdjTable(level, R, adj_frame, taps, initial[initial_id + 1])
                      ELSE initial
           sweep == ReachSweep(entries, board, 0, {}, {})
           steps == LockSteps(entries, sweep.can_reach, level, adj_frame, taps, is_adj,
                              initial_frame, board)
           st == LockLoop(can_adj, steps, R)
       IN [ran |-> TRUE,
           can_adj |-> st.can_adj,
           positions |->
             IF st.phase_2_possible
             THEN RunPhase2(st.positions, level, R, double_tuck, board, tuck_masks,
                            st.lock_positions_without_tuck, st.can_tuck_frame_masks)
             ELSE st.positions,
           num_phase1 |-> Len(st.positions),
           can_continue |-> sweep.can_continue,
           can_reach |-> sweep.can_reach,
           lock_positions_without_tuck |-> st.lock_positions_without_tuck,
           can_tuck_frame_masks |-> st.can_tuck_frame_masks,
           phase_2_possible |-> st.phase_2_possible]

\* Search::MoveSearch as a function of its arguments: the PossibleMoves returned
MoveSearch(level, R, adj_frame, taps, double_tuck, board) ==
  LET frame_masks == GetFrameMasks(level, R, board)
      tuck_masks == GetTuckMasks(R, double_tuck, frame_masks)
      initial == InitialTable(level, R, taps)
      first == DoOneSearch(level, R, adj_frame, taps, double_tuck, FALSE, 0, initial,
                           board, tuck_masks, {})
      found == [n \in 1..Len(initial) |->
                  LET entry == initial[n]
                      row == GetRow(Max2(adj_frame, TapAt(taps, entry.num_taps)), level)
                  IN <<(<<entry.rot, row, entry.col>>),
                       DoOneSearch(level, R, adj_frame, taps, double_tuck, TRUE, n - 1,
                                   initial, board, tuck_masks, first.can_adj).positions>>]
               \o <<>>
  IN [non_adj |-> first.positions,
      adj |-> SelectSeq(found, LAMBDA x : Len(x[2]) # 0)]

\* ------------------------------------------------------------------------
\* Inputs of the search: rotation-board arrays, levels, R, adj_frame, taps
\* ------------------------------------------------------------------------
\* the Board whose filled cells <<row, col>> are given
BoardOfFilled(filled) == [col \in Cols |-> {row \in Rows : <<row, col>> \notin filled}]

\* the Board whose column col is filled from row tops[col + 1] down
BoardOfTops(tops) == [col \in Cols |-> {row \in Rows : row < tops[col + 1]}]

EmptyBoard == BoardOfFilled({})
CeilingBoard == BoardOfFilled({0} \X Cols)
SingleColumnBoard == BoardOfFilled((10..19) \X {0})
TuckGateBoard == BoardOfFilled({<<10, 0>>, <<10, 2>>})
SpireBoard == BoardOfFilled((12..19) \X {5})
OverhangBoard == BoardOfFilled(({0, 1} \cup (5..8)) \X {3})
SkylineBoard == BoardOfTops(<<15, 16, 14, 17, 12, 18, 13, 16, 15, 17>>)
HighStackBoard == BoardOfTops(<<4, 5, 3, 4, 6, 5, 4, 3, 5, 20>>)
RoofBoard == BoardOfFilled({<<12, 3>>, <<12, 4>>, <<15, 7>>} \cup ((17..19) \X (0..8)))

SpawnBlockBoard == BoardOfFilled({<<0, 5>>})

BaseBoards ==
  <<EmptyBoard, CeilingBoard, SingleColumnBoard, TuckGateBoard, SpireBoard,
    OverhangBoard, SkylineBoard, HighStackBoard, RoofBoard, SpawnBlockBoard>>

\* rotation-board array number k: the first Len(BaseBoards) arrays hold the
\* same board in every rotation, the later ones a different board per rotation
BoardArray(k, R) ==
  [rot \in Rots(R) |->
     BaseBoards[((k + rot * (k \div Len(BaseBoards))) % Len(BaseBoards)) + 1]]

MaxBoard == 11
RotationCounts == {1, 2, 4}
AdjFrames == {0, 18}
TapSchedules == {Tap30Hz, Tap12Hz}

\* the template arguments and build options explored with board array k:
\* <<level, R, adj_frame, taps, double_tuck>>
SearchInputs(k) ==
  IF k <= 1
  THEN Levels \X RotationCounts \X AdjFrames \X TapSchedules \X {FALSE}
  ELSE (Levels \X {1} \X AdjFrames \X {Tap30Hz, TapDelayed} \X BOOLEAN)
       \cup (Levels \X {2} \X {18} \X {Tap30Hz} \X {FALSE})
       \cup (IF k % 4 = 3 THEN Levels \X {4} \X {18} \X {Tap30Hz} \X {FALSE} ELSE {})

\* ------------------------------------------------------------------------
\* Search::MoveSearch as a state machine
\* ------------------------------------------------------------------------
VARIABLES
  ms_level, ms_R, ms_adj_frame, ms_taps,  \* template arguments of MoveSearch
  ms_double_tuck,                         \* the build option kDoubleTuckAllowed
  ms_board,                               \* the argument: std::array<Board, R>
  ms_initial,                             \* Phase1Table<...>::initial
  pc,                                     \* where MoveSearch is
  ms_frame_masks, ms_tuck_masks,          \* locals of MoveSearch
  ms_can_adj,                             \* bool can_adj[initial_N], as a set
  ms_non_adj, ms_adj,                     \* ret.non_adj, ret.adj
  ms_initial_id,                          \* the index of For<initial_N>
  ms_initial_pass,                        \* what DoOneSearch<false> computed
  ms_pass,                                \* what the last DoOneSearch computed
  cd_pc,                                  \* which codec function was applied
  cd_level, cd_col, cd_start_row,         \* the arguments of the codec functions
  cd_frames, cd_column, cd_lock_row,      \* what they returned
  lv_R, lv_adj_frame, lv_taps,            \* the arguments of the searches that
  lv_double_tuck, lv_board,               \* are compared across the levels
  lv_reach,                               \* the placements found at each level
  nz_input,                               \* a PossibleMoves as it was built
  nz_moves, nz_unique,                    \* the object, the argument of Normalize
  nz_before, nz_calls,                    \* its value before the last call, the calls made
  tb_pc,                                  \* where the construction of a table is
  tb_deltas, tb_taps,                     \* the arguments of TapTable, the table it holds
  tb_level, tb_R,                         \* the template arguments of Phase1TableGen
  tb_initial_frame, tb_initial_rot,       \* its arguments
  tb_initial_col,
  tb_entries,                             \* the entries it wrote
  fr_pc, fr_level, fr_row,                \* a row and the frame function applied to it
  fr_frame, fr_back,                      \* the frame returned, GetRow of that frame
  cs_pc,                                  \* where the thread of CalculateSameLines is
  cs_blocks, cs_batches,                  \* the blocks of [start, end), the batches of a block
  cs_block,                               \* the blocks submitted so far
  cs_tmp,                                 \* the value unfinished++ has read
  cs_unfinished,                          \* size_t unfinished
  cs_mtx,                                 \* who holds std::mutex mtx
  cs_task,                                \* the reader tasks pushed to io_pool
  cs_works,                               \* std::deque works
  cs_pushed                               \* the arguments of thread_queue.Push so far

msvars == <<ms_level, ms_R, ms_adj_frame, ms_taps, ms_double_tuck, ms_board,
            ms_initial, pc, ms_frame_masks, ms_tuck_masks, ms_can_adj, ms_non_adj,
            ms_adj, ms_initial_id, ms_initial_pass, ms_pass>>

cdvars == <<cd_pc, cd_level, cd_col, cd_start_row, cd_frames, cd_column, cd_lock_row>>

lvvars == <<lv_R, lv_adj_frame, lv_taps, lv_double_tuck, lv_board, lv_reach>>

nzvars == <<nz_input, nz_moves, nz_unique, nz_before, nz_calls>>

tbvars == <<tb_pc, tb_deltas, tb_taps, tb_level, tb_R, tb_initial_frame,
            tb_initial_rot, tb_initial_col, tb_entries>>

frvars == <<fr_pc, fr_level, fr_row, fr_frame, fr_back>>

csvars == <<cs_pc, cs_blocks, cs_batches, cs_block, cs_tmp, cs_unfinished, cs_mtx,
            cs_task, cs_works, cs_pushed>>

auxvars == <<nzvars, tbvars, frvars, csvars>>

vars == <<msvars, cdvars, lvvars, auxvars>>

inputs == <<ms_level, ms_R, ms_adj_frame, ms_taps, ms_double_tuck, ms_board,
            ms_initial>>

InitLocals ==
  /\ ms_frame_masks = <<>>
  /\ ms_tuck_masks = <<>>
  /\ ms_can_adj = {}
  /\ ms_non_adj = <<>>
  /\ ms_adj = <<>>
  /\ ms_initial_id = 0
  /\ ms_initial_pass = NoPass(ms_R, {})
  /\ ms_pass = NoPass(ms_R, {})

\* no codec function has been applied
CodecIdle ==
  /\ cd_pc = "idle"
  /\ cd_level = kLevel18
  /\ cd_col = {}
  /\ cd_start_row = 0
  /\ cd_frames = {}
  /\ cd_column = {}
  /\ cd_lock_row = 0

\* no search is compared across the levels
LevelsIdle ==
  /\ lv_R = 1
  /\ lv_adj_frame = 0
  /\ lv_taps = Tap30Hz
  /\ lv_double_tuck = FALSE
  /\ lv_board = BoardArray(0, 1)
  /\ lv_reach = <<>>

\* no PossibleMoves is normalized
NormalizeIdle ==
  /\ nz_input = [non_adj |-> <<>>, adj |-> <<>>]
  /\ nz_moves = nz_input
  /\ nz_unique = FALSE
  /\ nz_before = nz_input
  /\ nz_calls = 0

\* no table is constructed
TablesIdle ==
  /\ tb_pc = "idle"
  /\ tb_deltas = <<>>
  /\ tb_taps = <<>>
  /\ tb_level = kLevel18
  /\ tb_R = 1
  /\ tb_initial_frame = 0
  /\ tb_initial_rot = 0
  /\ tb_initial_col = 0
  /\ tb_entries = <<>>

\* no frame function is applied
FramesIdle ==
  /\ fr_pc = "idle"
  /\ fr_level = kLevel18
  /\ fr_row = 0
  /\ fr_frame = 0
  /\ fr_back = 0

\* CalculateSameLines is not running
LinesIdle ==
  /\ cs_pc = "idle"
  /\ cs_blocks = 0
  /\ cs_batches = 0
  /\ cs_block = 0
  /\ cs_tmp = 0
  /\ cs_unfinished = 0
  /\ cs_mtx = "free"
  /\ cs_task = <<>>
  /\ cs_works = <<>>
  /\ cs_pushed = <<>>

AuxIdle == NormalizeIdle /\ TablesIdle /\ FramesIdle /\ LinesIdle

Init ==
  /\ \E k \in 0..MaxBoard : \E in \in SearchInputs(k) :
       /\ ms_level = in[1]
       /\ ms_R = in[2]
       /\ ms_adj_frame = in[3]
       /\ ms_taps = in[4]
       /\ ms_double_tuck = in[5]
       /\ ms_board = BoardArray(k, in[2])
  /\ ms_initial = InitialTable(ms_level, ms_R, ms_taps)
  /\ pc = "start"
  /\ InitLocals
  /\ CodecIdle
  /\ LevelsIdle
  /\ AuxIdle

\* lines 541-552: cols, frame_masks, tuck_masks, can_adj
Prepare ==
  /\ pc = "start"
  /\ ms_frame_masks' = GetFrameMasks(ms_level, ms_R, ms_board)
  /\ ms_tuck_masks' = GetTuckMasks(ms_R, ms_double_tuck, ms_frame_masks')
  /\ ms_can_adj' = {}
  /\ pc' = "initial"
  /\ UNCHANGED <<inputs, ms_non_adj, ms_adj, ms_initial_id, ms_initial_pass, ms_pass,
                 cdvars, lvvars, auxvars>>

\* Position buf[256] of MoveSearch
BufSize == 256

\* lines 554-557: ret.non_adj.assign(buf, buf + DoOneSearch<false>(...));
\* what follows a write past the end of buf is undefined: the model stops
InitialSearch ==
  /\ pc = "initial"
  /\ ms_initial_pass' =
       DoOneSearch(ms_level, ms_R, ms_adj_frame, ms_taps, ms_double_tuck,
                   FALSE, 0, ms_initial, ms_board, ms_tuck_masks, ms_can_adj)
  /\ ms_pass' = ms_initial_pass'
  /\ ms_can_adj' = ms_initial_pass'.can_adj
  /\ ms_non_adj' = ms_initial_pass'.positions
  /\ ms_initial_id' = 0
  /\ pc' = IF Len(ms_initial_pass'.positions) > BufSize THEN "overrun" ELSE "adj"
  /\ UNCHANGED <<inputs, ms_frame_masks, ms_tuck_masks, ms_adj, cdvars, lvvars, auxvars>>

\* lines 559-567: one iteration of For<initial_N>
AdjSearch ==
  /\ pc = "adj"
  /\ ms_initial_id < Len(ms_initial)
  /\ ms_pass' = DoOneSearch(ms_level, ms_R, ms_adj_frame, ms_taps, ms_double_tuck,
                            TRUE, ms_initial_id, ms_initial, ms_board,
                            ms_tuck_masks, ms_can_adj)
  /\ LET entry == ms_initial[ms_initial_id + 1]
         row == GetRow(Max2(ms_adj_frame, TapAt(ms_taps, entry.num_taps)), ms_level)
     IN ms_adj' = IF Len(ms_pass'.positions) # 0
                  THEN Append(ms_adj, <<(<<entry.rot, row, entry.col>>),
                                        ms_pass'.positions>>)
                  ELSE ms_adj
  /\ ms_initial_id' = ms_initial_id + 1
  /\ pc' = IF Len(ms_pass'.positions) > BufSize THEN "overrun" ELSE pc
  /\ UNCHANGED <<inputs, ms_frame_masks, ms_tuck_masks, ms_can_adj, ms_non_adj,
                 ms_initial_pass, cdvars, lvvars, auxvars>>

\* line 568: return ret
Return ==
  /\ pc = "adj"
  /\ ms_initial_id = Len(ms_initial)
  /\ pc' = "done"
  /\ UNCHANGED <<inputs, ms_frame_masks, ms_tuck_masks, ms_can_adj, ms_non_adj,
                 ms_adj, ms_initial_id, ms_initial_pass, ms_pass, cdvars, lvvars, auxvars>>

Next == Prepare \/ InitialSearch \/ AdjSearch \/ Return

Spec == Init /\ [][Next]_vars

\* ------------------------------------------------------------------------
\* The same search on rotation boards with striped columns
\* ------------------------------------------------------------------------
OpenColumn == Rows
\* empty on the even rows, occupied on the odd rows
EvenColumn == {row \in Rows : row % 2 = 0}
\* empty on row 0 and on the odd rows
OddColumn == {0} \cup {row \in Rows : row % 2 = 1}

StripedArray ==
  [rot \in Rots(4) |->
     CASE rot = 0 -> [col \in Cols |-> IF col \in {0, NumCols - 1} THEN EvenColumn ELSE OpenColumn]
       [] rot = 2 -> [col \in Cols |-> IF col \in {2, 4, 6, 8} THEN OpenColumn ELSE OddColumn]
       [] OTHER -> [col \in Cols |-> EvenColumn]]

InitBuffer ==
  /\ ms_level \in Levels
  /\ ms_R = 4
  /\ ms_adj_frame \in AdjFrames
  /\ ms_taps = Tap30Hz
  /\ ms_double_tuck = FALSE
  /\ ms_board = StripedArray
  /\ ms_initial = InitialTable(ms_level, ms_R, ms_taps)
  /\ pc = "start"
  /\ InitLocals
  /\ CodecIdle
  /\ LevelsIdle
  /\ AuxIdle

SpecBuffer == InitBuffer /\ [][Next]_vars

\* ------------------------------------------------------------------------
\* What MoveSearch returns
\* ------------------------------------------------------------------------
SeqSet(s) == {s[n] : n \in 1..Len(s)}

\* the placements of ret.non_adj, of the adj[].moves, and of both
NonAdjSet == SeqSet(ms_non_adj)
AdjMoves == UNION {SeqSet(ms_adj[a][2]) : a \in 1..Len(ms_adj)}
Reach == NonAdjSet \cup AdjMoves

\* every cell of every rotation board is empty
EmptyArray == \A rot \in Rots(ms_R) : ms_board[rot] = EmptyBoard

\* the spawn cell (rotation 0, row 0, start column) is empty
SpawnEmpty == 0 \in ms_board[0][StartCol]

\* the straight drop from the spawn cell
RootLockRow == FindLockRow(ms_board[0][StartCol], 0)
RootPlacement == <<0, RootLockRow, StartCol>>

\* C1: every placement in non_adj or in an adj[k].moves has 0 <= rot < R,
\* 0 <= row < 20, 0 <= col < 10, and the cell (row, col) of the rotation-rot
\* board is empty.
C1_InRangeAndFits ==
  \A p \in Reach :
    /\ p[1] \in Rots(ms_R)
    /\ p[2] \in Rows
    /\ p[3] \in Cols
    /\ p[2] \in ms_board[p[1]][p[3]]

C1_Witness ==
  /\ pc = "done"
  /\ ms_board[0] = RoofBoard
  /\ ms_adj # <<>>
  /\ Len(ms_non_adj) > ms_initial_pass.num_phase1

\* C2 as stated: when the spawn cell is empty and adj_frame >= taps[0], the
\* straight-drop placement (0, lock_row, 5) appears in non_adj.
C2_Original ==
  (pc = "done" /\ SpawnEmpty /\ ms_adj_frame >= TapAt(ms_taps, 0)) =>
    RootPlacement \in NonAdjSet

\* C2, amended: when the spawn cell is empty and adj_frame >= taps[0], the
\* straight-drop placement is in non_adj if the piece has locked by adj_frame
\* (GetLastFrameOnRow(lock_row) + 1 <= adj_frame); otherwise it is not in
\* non_adj but in the moves of the adj entry anchored at
\* (0, GetRow(adj_frame), 5).
C2_RootReach ==
  (pc = "done" /\ SpawnEmpty /\ ms_adj_frame >= TapAt(ms_taps, 0)) =>
    IF GetLastFrameOnRow(RootLockRow, ms_level) + 1 <= ms_adj_frame
    THEN RootPlacement \in NonAdjSet
    ELSE /\ RootPlacement \notin NonAdjSet
         /\ \E a \in 1..Len(ms_adj) :
              /\ ms_adj[a][1] = <<0, GetRow(ms_adj_frame, ms_level), StartCol>>
              /\ RootPlacement \in SeqSet(ms_adj[a][2])

C2_Witness ==
  /\ pc = "done"
  /\ SpawnEmpty
  /\ ms_adj_frame >= TapAt(ms_taps, 0)
  /\ ms_adj_frame = 18
  /\ RootPlacement \in NonAdjSet
  /\ ms_adj # <<>>

\* C3: when the spawn cell is occupied, the root entry satisfies neither masks
\* nor masks_nodrop, no entry is reached, and MoveSearch returns with non_adj
\* and adj empty.
C3_BlockedSpawn ==
  ~SpawnEmpty =>
    /\ ~Contains(ms_board, ms_initial[1].masks)
    /\ ~Contains(ms_board, ms_initial[1].masks_nodrop)
    /\ ms_initial_pass.can_reach = {}
    /\ ms_pass.can_reach = {}
    /\ ms_can_adj = {}
    /\ ms_non_adj = <<>>
    /\ ms_adj = <<>>
    /\ pc \in {"adj", "done"} => ms_initial_pass.ran

C3_Witness ==
  /\ pc = "done"
  /\ ~SpawnEmpty
  /\ ms_board[0] = SpawnBlockBoard
  /\ ms_R = 2

\* the scenario of C4: empty board, level 39, R = 4, 30 Hz, adj_frame = 18
C4_Scenario ==
  /\ pc = "done"
  /\ EmptyArray
  /\ ms_level = kLevel39
  /\ ms_R = 4
  /\ ms_taps = Tap30Hz
  /\ ms_adj_frame = 18

\* C4 as stated: in that scenario non_adj contains (0, 19, 5) and no other
\* placement.
C4_Original == C4_Scenario => NonAdjSet = {<<0, 19, StartCol>>}

\* C4, amended: in that scenario non_adj contains (0, 19, 5) and with it
\* every other (r, 19, c), 0 <= r < 4, 0 <= c < 10: the taps on the frames
\* 0, 2, 4, 6, 8 all come before the piece locks on frame 10.
C4_EmptyL39 ==
  C4_Scenario =>
    NonAdjSet = Rots(4) \X {NumRows - 1} \X Cols

C4_Witness == C4_Scenario /\ <<0, 19, StartCol>> \in NonAdjSet /\ ms_adj = <<>>

\* C5: at level 39 with adj_frame = 18 the adj list is empty for every board:
\* the start frame max(adj_frame, taps[num_taps]) of every initial entry is
\* not below the terminal frame GetLastFrameOnRow(19) + 1 = 10, no entry is
\* flagged can_adj, and every adjustment pass returns 0 positions.
C5_NoAdjL39 ==
  (ms_level = kLevel39 /\ ms_adj_frame = 18) =>
    /\ TotalFrames(ms_level) = 10
    /\ \A i \in 1..Len(ms_initial) :
         AdjFrameStart(ms_adj_frame, ms_taps, ms_initial[i]) >= TotalFrames(ms_level)
    /\ ms_can_adj = {}
    /\ ms_adj = <<>>
    /\ (pc \in {"adj", "done"} /\ ms_initial_id > 0) =>
         (~ms_pass.ran /\ ms_pass.positions = <<>>)

C5_Witness ==
  /\ pc = "done"
  /\ ms_level = kLevel39
  /\ ms_adj_frame = 18
  /\ ms_board[0] = SkylineBoard
  /\ ms_non_adj # <<>>
  /\ ms_initial_id = Len(ms_initial)

\* no (rot, col) target of the initial table is marked cannot_reach
NoCannotReach ==
  \A rot \in Rots(ms_R), col \in Cols :
    ~Phase1Arrays(ms_level, ms_R, ms_taps, 0, 0, StartCol, rot, col).cannot_reach

\* C6: on the empty board, at any level and under any tap schedule with no
\* target of the initial table marked cannot_reach, the union of non_adj and
\* the adj[].moves is exactly {(r, 19, c) : 0 <= r < R, 0 <= c < 10}.
C6_Exhaustive ==
  (pc = "done" /\ EmptyArray /\ NoCannotReach) =>
    Reach = Rots(ms_R) \X {NumRows - 1} \X Cols

C6_Witness ==
  /\ pc = "done"
  /\ EmptyArray
  /\ NoCannotReach
  /\ ms_R = 4
  /\ ms_level = kLevel29
  /\ ms_adj # <<>>
  /\ Reach = Rots(ms_R) \X {NumRows - 1} \X Cols

\* C10: every anchor (rot, row, col) of adj[] belongs to an entry of the
\* initial table at (rot, col) that the initial pass reached and flagged
\* can_adj, with row = GetRow(max(adj_frame, taps[num_taps])); the anchor cell
\* is empty on the rotation-rot board, and the straight-drop placement
\* (rot, lock_row, col) of that entry is not in non_adj.
C10_AdjConsistent ==
  \A a \in 1..Len(ms_adj) :
    \E i \in 0..(Len(ms_initial) - 1) :
      LET entry == ms_initial[i + 1]
          anchor == ms_adj[a][1]
          start_frame == IF entry.num_taps = 0 THEN 0
                         ELSE TapAt(ms_taps, entry.num_taps - 1)
          lock_row == FindLockRow(ms_board[entry.rot][entry.col],
                                  GetRow(start_frame, ms_level))
      IN /\ anchor[1] = entry.rot
         /\ anchor[3] = entry.col
         /\ i \in ms_initial_pass.can_reach
         /\ i \in ms_can_adj
         /\ anchor[2] = GetRow(Max2(ms_adj_frame, TapAt(ms_taps, entry.num_taps)),
                               ms_level)
         /\ anchor[2] \in ms_board[anchor[1]][anchor[3]]
         /\ <<entry.rot, lock_row, entry.col>> \notin NonAdjSet

C10_Witness ==
  /\ pc = "done"
  /\ Len(ms_adj) > 1
  /\ ms_non_adj # <<>>
  /\ ms_board[0] = RoofBoard
  /\ ms_R > 1

\* ------------------------------------------------------------------------
\* The codec functions and FindLockRow applied to single columns
\* ------------------------------------------------------------------------
MaxPop == 1

\* the 20-bit columns explored: those with at most MaxPop bits set, the runs
\* of consecutive set bits, and the complements of both
FewBits == {c \in SUBSET Rows : Cardinality(c) <= MaxPop}
Runs == {lo..hi : lo \in Rows, hi \in Rows}
CodecColumns == FewBits \cup Runs \cup {Rows \ c : c \in FewBits \cup Runs}

\* the search does nothing while the codec functions are explored
SearchIdle ==
  /\ ms_level = kLevel18
  /\ ms_R = 1
  /\ ms_adj_frame = 0
  /\ ms_taps = Tap30Hz
  /\ ms_double_tuck = FALSE
  /\ ms_board = BoardArray(0, 1)
  /\ ms_initial = <<>>
  /\ pc = "idle"
  /\ InitLocals

InitCodec ==
  /\ cd_pc = "start"
  /\ cd_level \in Levels
  /\ cd_col \in CodecColumns
  /\ cd_start_row = 0
  /\ cd_frames = {}
  /\ cd_column = {}
  /\ cd_lock_row = 0
  /\ SearchIdle
  /\ LevelsIdle
  /\ AuxIdle

\* frames = ColumnToNormalFrameMask<level>(col)
Encode ==
  /\ cd_pc = "start"
  /\ cd_frames' = ColumnToNormalFrameMask(cd_level, cd_col)
  /\ cd_pc' = "encoded"
  /\ UNCHANGED <<cd_level, cd_col, cd_start_row, cd_column, cd_lock_row, msvars, lvvars, auxvars>>

\* column = FramesToColumn<level>(frames)
Decode ==
  /\ cd_pc = "encoded"
  /\ cd_column' = FramesToColumn(cd_level, cd_frames)
  /\ cd_pc' = "decoded"
  /\ UNCHANGED <<cd_level, cd_col, cd_start_row, cd_frames, cd_lock_row, msvars, lvvars, auxvars>>

\* lock_row = FindLockRow(col, start_row)
Lock ==
  /\ cd_pc = "start"
  /\ \E s \in Rows :
       /\ cd_start_row' = s
       /\ cd_lock_row' = FindLockRow(cd_col, s)
  /\ cd_pc' = "locked"
  /\ UNCHANGED <<cd_level, cd_col, cd_frames, cd_column, msvars, lvvars, auxvars>>

NextCodec == Encode \/ Decode \/ Lock

SpecCodec == InitCodec /\ [][NextCodec]_vars

\* ------------------------------------------------------------------------
\* Codec round trip and lock row
\* ------------------------------------------------------------------------
\* C8 as stated: at every level, decoding the normal frame mask of a 20-bit
\* column gives the column back.
C8_Original == cd_pc = "decoded" => cd_column = cd_col

\* C8, amended: FramesToColumn(ColumnToNormalFrameMask(c)) = c at the levels
\* 18, 19 and 29; at level 39 the round trip keeps only the even rows of c,
\* because the mask 0x55555 of both directions has one bit per two rows.
C8_RoundTrip ==
  cd_pc = "decoded" =>
    cd_column = IF cd_level = kLevel39 THEN {r \in cd_col : r % 2 = 0} ELSE cd_col

C8_Witness ==
  /\ cd_pc = "decoded"
  /\ cd_level = kLevel39
  /\ {1, 2} \subseteq cd_col
  /\ cd_column # cd_col

\* C9 as stated: when bit s of c is clear, FindLockRow(c, s) is the largest
\* r >= s with the bits s..r of c all zero and bit r + 1 set or r = 19.
C9_Original ==
  (cd_pc = "locked" /\ cd_start_row \notin cd_col) =>
    /\ cd_lock_row >= cd_start_row
    /\ \A k \in cd_start_row..cd_lock_row : k \notin cd_col
    /\ cd_lock_row = NumRows - 1 \/ (cd_lock_row + 1) \in cd_col

\* C9, amended: when bit s of c is set (a set bit is an empty cell),
\* FindLockRow(c, s) is the largest r >= s with the bits s..r of c all set
\* and bit r + 1 clear or r = 19.
C9_LockRow ==
  (cd_pc = "locked" /\ cd_start_row \in cd_col) =>
    /\ cd_lock_row >= cd_start_row
    /\ cd_lock_row <= NumRows - 1
    /\ \A k \in cd_start_row..cd_lock_row : k \in cd_col
    /\ cd_lock_row = NumRows - 1 \/ (cd_lock_row + 1) \notin cd_col

C9_Witness ==
  /\ cd_pc = "locked"
  /\ cd_start_row \in cd_col
  /\ cd_lock_row > cd_start_row
  /\ cd_lock_row < NumRows - 1
  /\ (cd_lock_row + 2) \in cd_col

\* ------------------------------------------------------------------------
\* The same search at the four levels
\* ------------------------------------------------------------------------
StairsBoard == BoardOfTops(<<2, 4, 6, 8, 10, 12, 14, 16, 18, 20>>)
WallsBoard == BoardOfTops(<<20, 20, 20, 6, 20, 20, 20, 5, 20, 20>>)
WellBoard == BoardOfTops(<<8, 8, 8, 8, 20, 8, 8, 8, 8, 8>>)
LowStackBoard == BoardOfTops(<<17, 18, 18, 17, 16, 19, 18, 17, 18, 16>>)
\* column 3 filled but for a window at the rows 2..4
WindowBoard == BoardOfFilled(((0..1) \cup (5..(NumRows - 1))) \X {3})

LevelBoards ==
  <<EmptyBoard, OverhangBoard, SingleColumnBoard, SpireBoard, SkylineBoard,
    HighStackBoard, StairsBoard, WallsBoard, WellBoard, LowStackBoard,
    TuckGateBoard, RoofBoard, WindowBoard>>

\* array number k: one board in every rotation, then a board per rotation
LevelBoardArray(k, R) ==
  [rot \in Rots(R) |->
     LevelBoards[((k + 2 * rot * (k \div Len(LevelBoards))) % Len(LevelBoards)) + 1]]

MaxLevelBoard == 13

\* <<R, adj_frame, taps, double_tuck>> explored with array k
LevelInputs(k) ==
  ({1} \X AdjFrames \X TapSchedules \X BOOLEAN)
  \cup ({2} \X {18} \X {Tap30Hz} \X {FALSE})
  \cup (IF k % 4 = 1 THEN {4} \X {18} \X {Tap30Hz} \X {FALSE} ELSE {})

\* the levels from the slowest gravity to the fastest
LevelOrder == <<kLevel18, kLevel19, kLevel29, kLevel39>>

\* non_adj and the moves of every adj entry, as a set
ReachOf(moves) ==
  SeqSet(moves.non_adj) \cup UNION {SeqSet(moves.adj[a][2]) : a \in 1..Len(moves.adj)}

InitLevels ==
  /\ \E k \in 0..MaxLevelBoard : \E in \in LevelInputs(k) :
       /\ lv_R = in[1]
       /\ lv_adj_frame = in[2]
       /\ lv_taps = in[3]
       /\ lv_double_tuck = in[4]
       /\ lv_board = LevelBoardArray(k, in[1])
  /\ lv_reach = <<>>
  /\ SearchIdle
  /\ CodecIdle
  /\ AuxIdle

\* MoveSearch<level, R, adj_frame, Taps>(board) at the next level
SearchLevel ==
  /\ Len(lv_reach) < Len(LevelOrder)
  /\ lv_reach' =
       Append(lv_reach,
              ReachOf(MoveSearch(LevelOrder[Len(lv_reach) + 1], lv_R, lv_adj_frame,
                                 lv_taps, lv_double_tuck, lv_board)))
  /\ UNCHANGED <<lv_R, lv_adj_frame, lv_taps, lv_double_tuck, lv_board, msvars, cdvars, auxvars>>

NextLevels == SearchLevel

SpecLevels == InitLevels /\ [][NextLevels]_vars

\* in no column of a rotation board is an occupied cell above an empty cell
NoOverhang ==
  \A rot \in Rots(lv_R), col \in Cols :
    \A row \in lv_board[rot][col] : \A above \in 0..row : above \in lv_board[rot][col]

\* the placements of a faster level are among those of every slower level
LevelsMonotone ==
  \A slow \in 1..Len(lv_reach), fast \in 1..Len(lv_reach) :
    slow < fast => lv_reach[fast] \subseteq lv_reach[slow]

\* C7 as stated: for every rotation-board array, R, adj_frame and schedule,
\* the reachable set at a slower level contains the one at any faster level.
C7_Original == LevelsMonotone

\* C7, amended: the same, for the rotation-board arrays without overhangs.
C7_Monotone == NoOverhang => LevelsMonotone

C7_Witness ==
  /\ Len(lv_reach) = Len(LevelOrder)
  /\ NoOverhang
  /\ lv_board[0] = WallsBoard
  /\ lv_reach[4] # {}
  /\ lv_reach[4] # lv_reach[1]

\* ------------------------------------------------------------------------
\* PossibleMoves::Normalize
\* ------------------------------------------------------------------------
\* operator< of Position: by rot, then by row, then by col
PositionLess(p, q) ==
  \/ p[1] < q[1]
  \/ p[1] = q[1] /\ p[2] < q[2]
  \/ p[1] = q[1] /\ p[2] = q[2] /\ p[3] < q[3]

\* std::unique: of every run of equal neighbours the first one is kept
RECURSIVE StdUnique(_)
StdUnique(p) ==
  IF Len(p) <= 1 THEN p
  ELSE LET rest == StdUnique(Tail(p))
       IN IF Head(p) = Head(rest) THEN rest ELSE <<Head(p)>> \o rest

\* UniqueVector_ with std::unique applied before std::sort
UniqueVector_UniqueFirst(p, unique) == SortSeq(StdUnique(p), PositionLess)

\* UniqueVector_ that removes the duplicates only when unique is true
UniqueVector_Flag(p, unique) ==
  IF unique THEN StdUnique(SortSeq(p, PositionLess)) ELSE SortSeq(p, PositionLess)

\* the argument unique is not read
UniqueVector_(p, unique) == StdUnique(SortSeq(p, PositionLess))

\* operator< of std::vector<Position>: std::lexicographical_compare
RECURSIVE VectorLess(_, _)
VectorLess(a, b) ==
  IF Len(b) = 0 THEN FALSE
  ELSE IF Len(a) = 0 THEN TRUE
  ELSE IF PositionLess(Head(a), Head(b)) THEN TRUE
  ELSE IF PositionLess(Head(b), Head(a)) THEN FALSE
  ELSE VectorLess(Tail(a), Tail(b))

\* operator< of std::pair<Position, std::vector<Position>>
PairLess(x, y) ==
  \/ PositionLess(x[1], y[1])
  \/ ~PositionLess(y[1], x[1]) /\ VectorLess(x[2], y[2])

Normalize(x, unique) ==
  LET made == [k \in 1..Len(x.adj) |->
                 <<x.adj[k][1], UniqueVector_(x.adj[k][2], unique)>>]
  IN [non_adj |-> UniqueVector_(x.non_adj, unique),
      adj |-> IF Len(x.adj) = 0 THEN <<>> ELSE SortSeq(made \o <<>>, PairLess)]

MaxMoves == 3
MaxCalls == 2

SeqsUpTo(S, n) == UNION {[1..k -> S] : k \in 0..n}

NormalizePositions == {<<0, 1, 2>>, <<0, 2, 1>>, <<1, 0, 0>>}
NormalizeAnchors == {<<0, 6, 5>>, <<0, 6, 4>>}
NormalizeEntries == NormalizeAnchors \X SeqsUpTo({<<0, 2, 1>>, <<0, 1, 2>>}, MaxMoves)

\* lists of at most two adj entries
NormalizeAdjLists ==
  {<<>>} \cup {<<e>> : e \in NormalizeEntries}
         \cup {<<e[1], e[2]>> : e \in NormalizeEntries \X NormalizeEntries}

\* every non_adj with a few adj, and a few non_adj with every adj
NormalizeInputs ==
  {[non_adj |-> s, adj |-> a] :
     s \in SeqsUpTo(NormalizePositions, MaxMoves),
     a \in {<<>>, <<(<<(<<0, 6, 5>>), (<<(<<0, 2, 1>>), (<<0, 1, 2>>)>>)>>)>>}}
  \cup {[non_adj |-> s, adj |-> a] :
          s \in {<<>>, <<(<<1, 0, 0>>), (<<0, 1, 2>>), (<<1, 0, 0>>)>>},
          a \in NormalizeAdjLists}

InitNormalize ==
  /\ nz_input \in NormalizeInputs
  /\ nz_moves = nz_input
  /\ nz_before = nz_input
  /\ nz_unique \in BOOLEAN
  /\ nz_calls = 0
  /\ SearchIdle
  /\ CodecIdle
  /\ LevelsIdle
  /\ TablesIdle
  /\ FramesIdle
  /\ LinesIdle

\* x.Normalize(unique)
NormalizeCall ==
  /\ nz_calls < MaxCalls
  /\ nz_before' = nz_moves
  /\ nz_moves' = Normalize(nz_moves, nz_unique)
  /\ nz_calls' = nz_calls + 1
  /\ UNCHANGED <<nz_input, nz_unique, msvars, cdvars, lvvars, tbvars, frvars, csvars>>

NextNormalize == NormalizeCall

SpecNormalize == InitNormalize /\ [][NextNormalize]_vars

\* C11: a second call of Normalize, on any PossibleMoves, changes nothing.
C11_Idempotent == nz_calls >= 2 => nz_moves = nz_before

C11_Witness ==
  /\ nz_calls = 2
  /\ nz_moves = nz_before
  /\ nz_moves # nz_input
  /\ Len(nz_input.adj) = 2
  /\ PairLess(nz_input.adj[2], nz_input.adj[1])
  /\ Len(nz_moves.adj[1][2]) < Len(nz_input.adj[2][2])

StrictlyIncreasing(p) ==
  \A n \in 1..(Len(p) - 1) : PositionLess(p[n], p[n + 1])

\* how many entries of adj have this anchor and this set of moves
AdjCount(adj, anchor, moves) ==
  Cardinality({k \in 1..Len(adj) : adj[k][1] = anchor /\ SeqSet(adj[k][2]) = moves})

\* C12: after Normalize, with either value of unique, non_adj and the moves
\* of every adj entry are strictly increasing in the order of Position, adj
\* is ordered by anchor, and non_adj and the moves of every anchor hold the
\* same positions as before the call.
C12_Normalized ==
  nz_calls >= 1 =>
    /\ StrictlyIncreasing(nz_moves.non_adj)
    /\ \A k \in 1..Len(nz_moves.adj) : StrictlyIncreasing(nz_moves.adj[k][2])
    /\ \A k \in 1..(Len(nz_moves.adj) - 1) :
         ~PositionLess(nz_moves.adj[k + 1][1], nz_moves.adj[k][1])
    /\ SeqSet(nz_moves.non_adj) = SeqSet(nz_before.non_adj)
    /\ Len(nz_moves.adj) = Len(nz_before.adj)
    /\ \A k \in 1..Len(nz_before.adj) :
         LET anchor == nz_before.adj[k][1]
             moves == SeqSet(nz_before.adj[k][2])
         IN AdjCount(nz_moves.adj, anchor, moves) = AdjCount(nz_before.adj, anchor, moves)

C12_Witness ==
  /\ nz_calls = 1
  /\ ~nz_unique
  /\ Len(nz_moves.non_adj) < Len(nz_input.non_adj)
  /\ PositionLess(nz_input.non_adj[2], nz_input.non_adj[1])
  /\ Len(nz_input.adj) = 2
  /\ PositionLess(nz_input.adj[2][1], nz_input.adj[1][1])
  /\ Len(nz_moves.adj[2][2]) < Len(nz_input.adj[1][2])
  /\ Len(nz_moves.adj[2][2]) = 2

\* ------------------------------------------------------------------------
\* The output buffer
\* ------------------------------------------------------------------------
\* C13: every pass, initial or adjustment, writes at most 256 positions
\* into buf.
C13_Original ==
  /\ Len(ms_initial_pass.positions) <= BufSize
  /\ Len(ms_pass.positions) <= BufSize

\* ------------------------------------------------------------------------
\* Construction of a TapTable and of a Phase-1 table
\* ------------------------------------------------------------------------
Deltas30Hz == <<0, 2, 2, 2, 2, 2, 2, 2, 2, 2>>
Deltas12Hz == <<0, 5, 5, 5, 5, 5, 5, 5, 5, 5>>
DeltasDelayed == <<3, 2, 2, 2, 2, 2, 2, 2, 2, 2>>

\* the 30 Hz deltas with one delta replaced
DeltaFamily ==
  {[Deltas30Hz EXCEPT ![i] = v] : i \in 1..10, v \in {-1, 0, 1, 2, 3}}

\* the frames a table starts on: 0, an adj_frame, a frame late in the fall
TableFrames == {0, 18, 45}

\* <<deltas, level, R, initial_frame, initial_rot, initial_col>>
TableInputs ==
  (DeltaFamily \X {kLevel18} \X {1} \X {0} \X {0} \X {StartCol})
  \cup UNION {{Deltas30Hz, Deltas12Hz, DeltasDelayed} \X Levels \X {R} \X TableFrames
                \X Rots(R) \X Cols : R \in RotationCounts}

InitTables ==
  /\ \E in \in TableInputs :
       /\ tb_deltas = in[1]
       /\ tb_level = in[2]
       /\ tb_R = in[3]
       /\ tb_initial_frame = in[4]
       /\ tb_initial_rot = in[5]
       /\ tb_initial_col = in[6]
  /\ tb_pc = "start"
  /\ tb_taps = <<>>
  /\ tb_entries = <<>>
  /\ SearchIdle
  /\ CodecIdle
  /\ LevelsIdle
  /\ NormalizeIdle
  /\ FramesIdle
  /\ LinesIdle

\* constexpr Taps taps{}: the static_assert, then the prefix sums
Construct ==
  /\ tb_pc = "start"
  /\ IF TapTableValid(tb_deltas)
     THEN tb_taps' = TapTable(tb_deltas) /\ tb_pc' = "constructed"
     ELSE tb_taps' = tb_taps /\ tb_pc' = "rejected"
  /\ UNCHANGED <<tb_deltas, tb_level, tb_R, tb_initial_frame, tb_initial_rot,
                 tb_initial_col, tb_entries, msvars, cdvars, lvvars, nzvars, frvars, csvars>>

\* Phase1TableGen<level, R, Taps>(initial_frame, initial_rot, initial_col, entries)
Generate ==
  /\ tb_pc = "constructed"
  /\ tb_entries' = Phase1TableGen(tb_level, tb_R, tb_taps, tb_initial_frame,
                                  tb_initial_rot, tb_initial_col)
  /\ tb_pc' = "generated"
  /\ UNCHANGED <<tb_deltas, tb_taps, tb_level, tb_R, tb_initial_frame, tb_initial_rot,
                 tb_initial_col, msvars, cdvars, lvvars, nzvars, frvars, csvars>>

NextTables == Construct \/ Generate

SpecTables == InitTables /\ [][NextTables]_vars

\* C14: a schedule is accepted iff its first delta is >= 0 and each of the
\* other nine is >= 2, and is rejected otherwise; an accepted table holds
\* the running sums of the deltas, so consecutive taps are >= 2 apart.
C14_TapTable ==
  tb_pc # "start" =>
    /\ (tb_pc # "rejected") <=>
         (tb_deltas[1] >= 0 /\ \A i \in 2..10 : tb_deltas[i] >= 2)
    /\ tb_pc # "rejected" =>
         /\ TapAt(tb_taps, 0) = tb_deltas[1]
         /\ \A k \in 0..8 :
              /\ TapAt(tb_taps, k + 1) = TapAt(tb_taps, k) + tb_deltas[k + 2]
              /\ TapAt(tb_taps, k + 1) - TapAt(tb_taps, k) >= 2

C14_Witness ==
  /\ tb_pc = "constructed"
  /\ tb_deltas[1] = 0
  /\ tb_deltas[10] = 3
  /\ TapAt(tb_taps, 9) = 19

\* ------------------------------------------------------------------------
\* Frames and rows
\* ------------------------------------------------------------------------
InitFrames ==
  /\ fr_pc = "start"
  /\ fr_level \in Levels
  /\ fr_row \in Rows
  /\ fr_frame = 0
  /\ fr_back = 0
  /\ SearchIdle
  /\ CodecIdle
  /\ LevelsIdle
  /\ NormalizeIdle
  /\ TablesIdle
  /\ LinesIdle

\* frame = GetFirstFrameOnRow(row, level), then GetRow(frame, level)
FirstFrame ==
  /\ fr_pc = "start"
  /\ fr_frame' = GetFirstFrameOnRow(fr_row, fr_level)
  /\ fr_back' = GetRow(fr_frame', fr_level)
  /\ fr_pc' = "first"
  /\ UNCHANGED <<fr_level, fr_row, msvars, cdvars, lvvars, nzvars, tbvars, csvars>>

\* frame = GetLastFrameOnRow(row, level), then GetRow(frame, level)
LastFrame ==
  /\ fr_pc = "start"
  /\ fr_frame' = GetLastFrameOnRow(fr_row, fr_level)
  /\ fr_back' = GetRow(fr_frame', fr_level)
  /\ fr_pc' = "last"
  /\ UNCHANGED <<fr_level, fr_row, msvars, cdvars, lvvars, nzvars, tbvars, csvars>>

NextFrames == FirstFrame \/ LastFrame

SpecFrames == InitFrames /\ [][NextFrames]_vars

\* the frames on which the piece is on row fr_row
FramesOnRow == {f \in 0..(FramesBits - 1) : GetRow(f, fr_level) = fr_row}

\* the frame returned is on the row asked for, and is the least such frame
\* for GetFirstFrameOnRow, the greatest for GetLastFrameOnRow
FrameIsBoundary ==
  /\ fr_back = fr_row
  /\ fr_pc = "first" => \A f \in FramesOnRow : fr_frame <= f
  /\ fr_pc = "last" => \A f \in FramesOnRow : f <= fr_frame

\* C15 as stated: for every level and every row r in 0..19,
\* GetRow(GetFirstFrameOnRow(r)) = r and GetRow(GetLastFrameOnRow(r)) = r,
\* the first being the least and the second the greatest frame on row r.
C15_Original == fr_pc # "start" => FrameIsBoundary

\* C15, amended: the same at the levels 18, 19 and 29 for every row, and at
\* level 39 for the even rows.
C15_FrameRows ==
  (fr_pc # "start" /\ (fr_level # kLevel39 \/ fr_row % 2 = 0)) => FrameIsBoundary

C15_Witness ==
  /\ fr_pc = "last"
  /\ fr_level = kLevel39
  /\ fr_row = NumRows - 2
  /\ fr_frame = 9

\* ------------------------------------------------------------------------
\* Frame arithmetic
\* ------------------------------------------------------------------------
\* the Frames values of the last pass: (rot, col) pairs that can start a tuck
TuckStarts == {rc \in DOMAIN ms_pass.can_tuck_frame_masks :
                 ms_pass.can_tuck_frame_masks[rc] # {}}

\* tuck_masks[i][rot][col] & can_tuck_frame_masks[rot][col], before the shift
TuckOperand(i, rc) ==
  ms_tuck_masks[i][rc[1]][rc[2]] \cap ms_pass.can_tuck_frame_masks[rc]

\* C16: every amount a Frames value is shifted by (first_tuck_frame,
\* last_tuck_frame, delta_frame) and every bit of a Frames value (frame
\* masks, drop masks, tuck masks, can_tuck_frame_masks, tuck_result after
\* the shift by delta_frame) is at most 60.
C16_NoOverflow ==
  pc \in {"initial", "adj", "done", "overrun"} =>
    /\ \A rot \in Rots(ms_R), col \in Cols :
         /\ \A f \in ms_frame_masks.frame[rot][col] : f <= 60
         /\ \A f \in ms_frame_masks.drop[rot][col] : f <= 60
         /\ \A i \in 1..TuckTypes(ms_R, ms_double_tuck) :
              \A f \in ms_tuck_masks[i][rot][col] : f <= 60
    /\ \A rc \in TuckStarts :
         /\ \A f \in ms_pass.can_tuck_frame_masks[rc] : f + 1 <= 60
         /\ \A i \in 1..TuckTypes(ms_R, ms_double_tuck) :
              LET delta_frame == TuckTypeTable(ms_R, ms_double_tuck)[i].delta_frame
              IN /\ delta_frame <= 60
                 /\ \A f \in TuckOperand(i, rc) : f + delta_frame <= 60

C16_Witness ==
  /\ pc = "adj"
  /\ ms_level = kLevel18
  /\ \E rc \in TuckStarts :
       /\ 59 \in ms_pass.can_tuck_frame_masks[rc]
       /\ \E i \in 1..TuckTypes(ms_R, ms_double_tuck) :
            /\ TuckTypeTable(ms_R, ms_double_tuck)[i].delta_frame = 2
            /\ 57 \in TuckOperand(i, rc)

\* ------------------------------------------------------------------------
\* The entries of a Phase-1 table
\* ------------------------------------------------------------------------
\* entry number i of the table (entries[i] of the source)
TableEntry(i) == tb_entries[i + 1]

TableIndices == 0..(Len(tb_entries) - 1)

\* the frame of the tap that moved the piece to the target of entry e
EntryStartFrame(e) ==
  (IF e.num_taps = 0 THEN 0 ELSE TapAt(tb_taps, e.num_taps - 1)) + tb_initial_frame

\* entry 0 is the root with prev = 0 and num_taps = 0; every other entry i
\* has prev(i) < i and num_taps(i) = num_taps(prev(i)) + 1, so num_taps
\* never decreases along the table
TableOrdered ==
  \A i \in TableIndices :
    LET e == TableEntry(i)
    IN IF i = 0
       THEN /\ e.rot = tb_initial_rot
            /\ e.col = tb_initial_col
            /\ e.prev = 0
            /\ e.num_taps = 0
       ELSE /\ e.prev < i
            /\ e.num_taps = TableEntry(e.prev).num_taps + 1
            /\ TableEntry(i - 1).num_taps <= e.num_taps

\* C17 as stated: every table produced by Phase1TableGen has the root as
\* its entry 0 and is ordered as above.
C17_Original ==
  tb_pc = "generated" => (Len(tb_entries) > 0 /\ TableOrdered)

\* C17, amended: every table that has an entry has the root as its entry 0
\* and is ordered as above.
C17_TableOrder ==
  (tb_pc = "generated" /\ Len(tb_entries) > 0) => TableOrdered

C17_Witness ==
  /\ tb_pc = "generated"
  /\ tb_R = 4
  /\ tb_initial_col = 2
  /\ Len(tb_entries) = 4 * NumCols
  /\ \E i \in TableIndices : TableEntry(i).prev > 20 /\ TableEntry(i).num_taps = 7

\* C18: num_taps of every entry is max(|col - initial_col|, num_ab) with
\* num_ab = 0, 1, 2, 1 for delta_rot = 0, 1, 2, 3, the count the start frame
\* and the masks of its target were computed with, between 0 and 9.
C18_TapCount ==
  tb_pc = "generated" =>
    \A i \in TableIndices :
      LET e == TableEntry(i)
          delta_rot == (e.rot + tb_R - tb_initial_rot) % tb_R
          num_ab == <<0, 1, 2, 1>>[delta_rot + 1]
      IN /\ e.num_taps = Max2(abs(e.col - tb_initial_col), num_ab)
         /\ e.num_taps >= 0
         /\ e.num_taps <= 9
         /\ \A cell \in e.masks_nodrop : cell[2] = GetRow(EntryStartFrame(e), tb_level)

C18_Witness ==
  /\ tb_pc = "generated"
  /\ tb_R = 4
  /\ tb_initial_rot = 1
  /\ tb_initial_col = NumCols - 1
  /\ \E i \in TableIndices :
       /\ TableEntry(i).rot = 0
       /\ TableEntry(i).col = NumCols - 1
       /\ TableEntry(i).num_taps = 1
  /\ \E i \in TableIndices : TableEntry(i).num_taps = 9

\* the targets of the table, none of them marked cannot_reach
NoTargetCannotReach ==
  \A rot \in Rots(tb_R), col \in Cols :
    ~Phase1Arrays(tb_level, tb_R, tb_taps, tb_initial_frame, tb_initial_rot,
                  tb_initial_col, rot, col).cannot_reach

\* C19: no (rot, col) is in two entries, so the table has at most 10 * R
\* entries; when no target is marked cannot_reach every (rot, col) is there.
C19_EachOnce ==
  tb_pc = "generated" =>
    /\ \A i \in TableIndices, j \in TableIndices :
         (TableEntry(i).rot = TableEntry(j).rot /\ TableEntry(i).col = TableEntry(j).col)
           => i = j
    /\ Len(tb_entries) <= NumCols * tb_R
    /\ NoTargetCannotReach =>
         {<<TableEntry(i).rot, TableEntry(i).col>> : i \in TableIndices}
           = Rots(tb_R) \X Cols

C19_Witness ==
  /\ tb_pc = "generated"
  /\ tb_R = 4
  /\ tb_initial_rot = 3
  /\ tb_initial_frame = 18
  /\ NoTargetCannotReach
  /\ Len(tb_entries) = 4 * NumCols

\* C20: the cells stamped for a non-root entry e are, on the row of its
\* tap, the place of entry prev(e), then the shift to col, then the turn
\* to rot: the pre-tap position is (rot, col) of prev(e).
C20_MaskTree ==
  tb_pc = "generated" =>
    \A i \in TableIndices \ {0} :
      LET e == TableEntry(i)
          before == TableEntry(e.prev)
          row == GetRow(EntryStartFrame(e), tb_level)
      IN e.masks_nodrop = {<<before.rot, row, before.col>>,
                           <<before.rot, row, e.col>>,
                           <<e.rot, row, e.col>>}

C20_Witness ==
  /\ tb_pc = "generated"
  /\ tb_R = 4
  /\ tb_initial_rot = 1
  /\ tb_initial_col = 7
  /\ \E i \in TableIndices \ {0} :
       /\ TableEntry(i).rot = 3
       /\ TableEntry(i).col = 5
       /\ TableEntry(TableEntry(i).prev).rot = 2
       /\ TableEntry(TableEntry(i).prev).col = 6

\* ------------------------------------------------------------------------
\* The last pass of DoOneSearch
\* ------------------------------------------------------------------------
\* a DoOneSearch has run past its two early returns
PassRan == pc \in {"adj", "done", "overrun"} /\ ms_pass.ran

\* the template arguments is_adj and initial_id of that DoOneSearch
PassIsAdj == ms_initial_id > 0
PassInitialId == ms_initial_id - 1

\* its initial_frame and its table
PassInitialFrame ==
  IF PassIsAdj THEN AdjFrameStart(ms_adj_frame, ms_taps, ms_initial[PassInitialId + 1]) ELSE 0

PassEntries ==
  IF PassIsAdj
  THEN AdjTable(ms_level, ms_R, ms_adj_frame, ms_taps, ms_initial[PassInitialId + 1])
  ELSE ms_initial

\* the entries on the prev chain of entry i, i excluded
RECURSIVE Ancestors(_, _)
Ancestors(entries, i) ==
  IF i = 0 THEN {} ELSE {entries[i + 1].prev} \cup Ancestors(entries, entries[i + 1].prev)

\* C21: entry i is reached iff the board contains its masks_nodrop and i is
\* the root or can_continue[prev(i)] holds; a reached entry has can_continue
\* iff it is not cannot_finish and the board contains its masks; so every
\* proper ancestor of a reached entry has can_continue, and nothing is
\* reached when the root is not.
C21_ReachSweep ==
  PassRan =>
    LET entries == PassEntries
        can_reach == ms_pass.can_reach
        can_continue == ms_pass.can_continue
    IN /\ \A i \in 0..(Len(entries) - 1) :
            LET entry == entries[i + 1]
            IN /\ i \in can_reach <=>
                    (/\ Contains(ms_board, entry.masks_nodrop)
                     /\ (i = 0 \/ entry.prev \in can_continue))
               /\ i \in can_continue <=>
                    (/\ i \in can_reach
                     /\ ~entry.cannot_finish
                     /\ Contains(ms_board, entry.masks))
               /\ i \in can_reach => Ancestors(entries, i) \subseteq can_continue
       /\ can_reach \subseteq 0..(Len(entries) - 1)
       /\ 0 \notin can_reach => can_reach = {}

\* a pass with an entry reached that cannot continue, with an entry whose
\* masks_nodrop the board contains behind a predecessor that cannot
\* continue, and with an entry at depth 2
C21_Witness ==
  /\ PassRan
  /\ LET entries == PassEntries
     IN /\ \E i \in ms_pass.can_reach : i \notin ms_pass.can_continue
        /\ \E i \in 1..(Len(entries) - 1) :
             /\ Contains(ms_board, entries[i + 1].masks_nodrop)
             /\ i \notin ms_pass.can_reach
        /\ \E i \in ms_pass.can_reach : entries[i + 1].num_taps >= 2

\* the iterations of the loop over the reached entries of the last pass
PassSteps ==
  LockSteps(PassEntries, ms_pass.can_reach, ms_level, ms_adj_frame, ms_taps, PassIsAdj,
            PassInitialFrame, ms_board)

\* C22: whenever FindLockRow(cols[rot][col], start_row) is called for a
\* reached entry, 0 <= start_row <= 19 and the cell (start_row, col) of the
\* rotation-rot board is empty.
C22_LockRowArgs ==
  PassRan =>
    LET steps == PassSteps
    IN \A n \in 1..Len(steps) :
         /\ steps[n].start_row \in Rows
         /\ steps[n].start_row \in ms_board[steps[n].rc[1]][steps[n].rc[2]]

\* an adjustment pass calls it below the top, in a column with occupied cells
C22_Witness ==
  /\ PassRan
  /\ PassIsAdj
  /\ LET steps == PassSteps
     IN \E n \in 1..Len(steps) :
          /\ steps[n].start_row >= 6
          /\ ms_board[steps[n].rc[1]][steps[n].rc[2]] # Rows
          /\ steps[n].lock_row > steps[n].start_row

\* what phase 1 of the last pass inserted: buf[0..sz) before RunPhase2
PassPhase1 == SubSeq(ms_pass.positions, 1, ms_pass.num_phase1)

\* the steps whose position is among the first k positions phase 1 inserted
EmittedSteps(steps, emitted) ==
  {n \in 1..Len(steps) : \E k \in 1..Len(emitted) : emitted[k] = steps[n].position}

\* C23: in the initial pass every reached entry i is either flagged
\* can_adj[i], exactly when GetLastFrameOnRow(lock_row) + 1 >
\* max(adj_frame, taps[num_taps]), and not emitted, or emitted as
\* (rot, lock_row, col) and not flagged; in an adjustment pass every reached
\* entry is emitted and can_adj is left as it was.
C23_EmitOrAnchor ==
  PassRan =>
    LET steps == PassSteps
        entries == PassEntries
        emitted == PassPhase1
    IN IF PassIsAdj
       THEN /\ EmittedSteps(steps, emitted) = 1..Len(steps)
            /\ Len(emitted) = Len(steps)
            /\ ms_pass.can_adj = ms_initial_pass.can_adj
            /\ ms_can_adj = ms_initial_pass.can_adj
       ELSE /\ \A n \in 1..Len(steps) :
                 LET entry == entries[steps[n].i + 1]
                     flagged == steps[n].i \in ms_pass.can_adj
                 IN /\ flagged <=>
                         (GetLastFrameOnRow(steps[n].lock_row, ms_level) + 1
                            > Max2(ms_adj_frame, TapAt(ms_taps, entry.num_taps)))
                    /\ flagged <=> n \notin EmittedSteps(steps, emitted)
                    /\ steps[n].position = <<entry.rot, steps[n].lock_row, entry.col>>
            /\ Len(emitted) = Cardinality(EmittedSteps(steps, emitted))
            /\ ms_pass.can_adj \subseteq ms_pass.can_reach
            /\ SeqSet(emitted) \subseteq SeqSet(ms_non_adj)

\* an adjustment pass that emits several reached entries, after an initial
\* pass that flagged some reached entries and emitted others
C23_Witness ==
  /\ PassRan
  /\ PassIsAdj
  /\ ms_pass.num_phase1 >= 2
  /\ ms_initial_pass.can_adj # {}
  /\ ms_initial_pass.num_phase1 >= 2
  /\ ms_initial_pass.can_reach \ ms_initial_pass.can_adj # {}

\* the frames f with initial_frame + taps[num_taps] <= f < min(lock_frame,
\* end_frame) for the reached entry of step s
TuckWindow(entries, s) ==
  LET entry == entries[s.i + 1]
      lock_frame == GetLastFrameOnRow(s.lock_row, ms_level) + 1
      end_frame == IF PassIsAdj THEN TotalFrames(ms_level)
                   ELSE Max2(ms_adj_frame, TapAt(ms_taps, entry.num_taps))
  IN {f \in 0..(FramesBits - 1) :
        /\ PassInitialFrame + TapAt(ms_taps, entry.num_taps) <= f
        /\ f < Min2(lock_frame, end_frame)}

\* can_tuck_frame_masks[rot][col] holds the windows of the entries reached
\* at (rot, col); its frames are below adj_frame in the initial pass and
\* from adj_frame on in an adjustment pass
TuckWindowMasks(entries, steps) ==
  \A rc \in Rots(ms_R) \X Cols :
    /\ ms_pass.can_tuck_frame_masks[rc]
         = UNION {TuckWindow(entries, steps[n]) : n \in {m \in 1..Len(steps) : steps[m].rc = rc}}
    /\ \A f \in ms_pass.can_tuck_frame_masks[rc] :
         IF PassIsAdj THEN f >= ms_adj_frame ELSE f < ms_adj_frame

\* C24 as stated: the masks hold the windows, and bit lock_row of
\* lock_positions_without_tuck[rot][col] is set iff the window of the
\* entry reached there is nonempty.
C24_Original ==
  PassRan =>
    LET steps == PassSteps
        entries == PassEntries
    IN /\ TuckWindowMasks(entries, steps)
       /\ \A rc \in Rots(ms_R) \X Cols :
            ms_pass.lock_positions_without_tuck[rc]
              = {steps[n].lock_row :
                   n \in {m \in 1..Len(steps) :
                            steps[m].rc = rc /\ TuckWindow(entries, steps[m]) # {}}}

\* C24, amended: the masks hold the windows, and bit lock_row of
\* lock_positions_without_tuck[rot][col] is set iff an entry was reached
\* at (rot, col), whether its window is empty or not.
C24_TuckWindow ==
  PassRan =>
    LET steps == PassSteps
        entries == PassEntries
    IN /\ TuckWindowMasks(entries, steps)
       /\ \A rc \in Rots(ms_R) \X Cols :
            ms_pass.lock_positions_without_tuck[rc]
              = {steps[n].lock_row : n \in {m \in 1..Len(steps) : steps[m].rc = rc}}

\* an initial pass with a window that adj_frame cuts short, a window that
\* the lock cuts short, and a reached entry without a window
C24_Witness ==
  /\ PassRan
  /\ ~PassIsAdj
  /\ LET steps == PassSteps
         entries == PassEntries
     IN /\ \E n \in 1..Len(steps) :
             /\ TuckWindow(entries, steps[n]) # {}
             /\ SetMax(TuckWindow(entries, steps[n])) = ms_adj_frame - 1
        /\ \E n \in 1..Len(steps) :
             /\ TuckWindow(entries, steps[n]) # {}
             /\ SetMax(TuckWindow(entries, steps[n])) < ms_adj_frame - 1
        /\ \E n \in 1..Len(steps) :
             /\ TuckWindow(entries, steps[n]) = {}
             /\ steps[n].lock_row \in ms_pass.lock_positions_without_tuck[steps[n].rc]

\* what RunPhase2 inserted in the last pass
PassPhase2 == SubSeq(ms_pass.positions, ms_pass.num_phase1 + 1, Len(ms_pass.positions))

\* FramesToColumn(tuck_result[rot][col]) of the last pass
PassPost(rot, col) ==
  FramesToColumn(ms_level,
    TuckResult(ms_R, ms_double_tuck, ms_tuck_masks, ms_pass.can_tuck_frame_masks, rot, col))

\* the rows r of column c that end a run of empty cells (r empty, r = 19 or
\* r + 1 blocked) in which post has a row
RestingRows(c, post) ==
  {r \in c : /\ (r = NumRows - 1 \/ r + 1 \notin c)
             /\ \E p \in post : p <= r /\ \A q \in p..r : q \in c}

\* C25: for every (rot, col), post = FramesToColumn(tuck_result[rot][col])
\* lies within c = cols[rot][col], and phase 2 emits (rot, r, col) exactly
\* for the rows r that end a run of empty cells of c holding a row of post
\* and whose bit is not set in lock_positions_without_tuck[rot][col].
C25_LockExtraction ==
  PassRan =>
    LET emitted == PassPhase2
    IN /\ \A rot \in Rots(ms_R), col \in Cols :
            LET c == ms_board[rot][col]
                post == PassPost(rot, col)
            IN /\ post \subseteq c
               /\ {r \in Rows : \E k \in 1..Len(emitted) : emitted[k] = <<rot, r, col>>}
                    = RestingRows(c, post) \ ms_pass.lock_positions_without_tuck[<<rot, col>>]
       /\ \A k \in 1..Len(emitted) :
            /\ emitted[k][1] \in Rots(ms_R)
            /\ emitted[k][2] \in Rows
            /\ emitted[k][3] \in Cols

\* phase 2 emits the end of an upper run that is not the end of the
\* column's lowest run, from a post-tuck row above it, and leaves out a
\* resting row for its bit in lock_positions_without_tuck
C25_Witness ==
  /\ PassRan
  /\ \E k \in 1..Len(PassPhase2) :
       LET p == PassPhase2[k]
       IN /\ p[2] < NumRows - 1
          /\ \E r \in ms_board[p[1]][p[3]] : r > p[2] + 1
          /\ \E q \in PassPost(p[1], p[3]) : q < p[2]
  /\ \E rot \in Rots(ms_R), col \in Cols :
       RestingRows(ms_board[rot][col], PassPost(rot, col))
         \cap ms_pass.lock_positions_without_tuck[<<rot, col>>] # {}

\* the resting positions a tuck of the last pass reaches
TuckReachable ==
  {<<rot, r, col>> : rot \in Rots(ms_R), r \in Rows, col \in Cols} \cap
  UNION {{<<rc[1], r, rc[2]>> : r \in RestingRows(ms_board[rc[1]][rc[2]], PassPost(rc[1], rc[2]))}
         : rc \in Rots(ms_R) \X Cols}

\* the lock positions of the entries that phase 1 of the last pass flagged
PassAnchors(steps) ==
  {steps[n].position : n \in {m \in 1..Len(steps) : steps[m].i \in ms_pass.can_adj}}

\* C26 as stated: every resting position that a tuck of a pass reaches is
\* in the list that pass emitted; phase 2 leaves it out only if phase 1 of
\* the same pass emitted it.
C26_Original ==
  PassRan =>
    /\ TuckReachable \subseteq SeqSet(ms_pass.positions)
    /\ TuckReachable \ SeqSet(PassPhase2) \subseteq SeqSet(PassPhase1)

\* C26, amended: phase 2 leaves a resting position that a tuck reaches out
\* only if phase 1 of the same pass emitted it or, in the initial pass,
\* flagged the entry that locks there as an anchor; in an adjustment pass
\* every such position is in the list the pass emitted.
C26_Dedup ==
  PassRan =>
    LET steps == PassSteps
    IN /\ TuckReachable \ SeqSet(PassPhase2)
            \subseteq SeqSet(PassPhase1) \cup (IF PassIsAdj THEN {} ELSE PassAnchors(steps))
       /\ PassIsAdj => TuckReachable \subseteq SeqSet(ms_pass.positions)

\* an initial pass where tucks reach the lock position of an anchor, a
\* position phase 1 emitted and a position that phase 2 emits
C26_Witness ==
  /\ PassRan
  /\ ~PassIsAdj
  /\ TuckReachable \cap PassAnchors(PassSteps) # {}
  /\ TuckReachable \cap SeqSet(PassPhase1) # {}
  /\ TuckReachable \cap SeqSet(PassPhase2) # {}

\* ------------------------------------------------------------------------
\* The adj entries of MoveSearch
\* ------------------------------------------------------------------------
\* the iterations of For<initial_N> done so far, those of them with can_adj
AdjDone == 0..(ms_initial_id - 1)
AdjFlagged == SortedBits(ms_can_adj \cap AdjDone)

\* the position where the initial pass found entry i to lock
InitialLockPosition(i) ==
  LET entry == ms_initial[i + 1]
      start_frame == IF entry.num_taps = 0 THEN 0 ELSE TapAt(ms_taps, entry.num_taps - 1)
  IN <<entry.rot,
       FindLockRow(ms_board[entry.rot][entry.col], GetRow(start_frame, ms_level)),
       entry.col>>

\* C27: MoveSearch returns one adj entry for each initial entry with
\* can_adj, in index order, and none for another entry; the moves of each
\* hold the straight drop (rot, lock_row, col) of its anchor, and the
\* anchors of distinct adj entries differ in (rot, col).
C27_AnchorEntries ==
  pc \in {"adj", "done"} =>
    LET flagged == AdjFlagged
    IN /\ Len(ms_adj) = Len(flagged)
       /\ \A k \in 1..Len(ms_adj) :
            LET entry == ms_initial[flagged[k] + 1]
                row == GetRow(Max2(ms_adj_frame, TapAt(ms_taps, entry.num_taps)), ms_level)
            IN /\ ms_adj[k][1] = <<entry.rot, row, entry.col>>
               /\ ms_adj[k][2] # <<>>
               /\ InitialLockPosition(flagged[k]) \in SeqSet(ms_adj[k][2])
       /\ \A k \in 1..Len(ms_adj), n \in 1..Len(ms_adj) :
            (ms_adj[k][1][1] = ms_adj[n][1][1] /\ ms_adj[k][1][3] = ms_adj[n][1][3])
              => k = n
       /\ pc = "done" => ms_initial_id = Len(ms_initial)

\* MoveSearch has returned several adj entries and has passed over initial
\* entries without can_adj, reached ones among them
C27_Witness ==
  /\ pc = "done"
  /\ Len(ms_adj) >= 3
  /\ ms_initial_pass.can_reach \ ms_can_adj # {}
  /\ Len(ms_adj) < Len(ms_initial)
  /\ \E k \in 1..Len(ms_adj) : Len(ms_adj[k][2]) = 1

\* no Position occurs twice in the vector p
NoDuplicates(p) == \A k \in 1..Len(p), n \in 1..Len(p) : p[k] = p[n] => k = n

\* C28: before Normalize, no Position occurs twice in the output of a
\* pass: not in non_adj and not in the moves of an adj entry.
C28_NoDuplicates ==
  /\ PassRan => NoDuplicates(ms_pass.positions)
  /\ NoDuplicates(ms_non_adj)
  /\ \A k \in 1..Len(ms_adj) : NoDuplicates(ms_adj[k][2])

\* an adjustment pass whose tucks reach a position phase 1 emitted, and
\* where phase 2 emits another row of a column phase 1 emitted a row for
C28_Witness ==
  /\ PassRan
  /\ PassIsAdj
  /\ ms_adj # <<>>
  /\ ms_adj[Len(ms_adj)][2] = ms_pass.positions
  /\ TuckReachable \cap SeqSet(PassPhase1) # {}
  /\ \E k \in 1..Len(PassPhase1), n \in 1..Len(PassPhase2) :
       /\ PassPhase1[k][1] = PassPhase2[n][1]
       /\ PassPhase1[k][3] = PassPhase2[n][3]

\* ------------------------------------------------------------------------
\* CalculateSameLines: the thread that submits the reader tasks and
\* forwards their work items, and the reader tasks in io_pool
\* ------------------------------------------------------------------------
MaxBlocks == 2
MaxBatches == 2
\* the threads of io_pool
IOThreads == 2

Blocks == 1..cs_blocks

\* a reader task: where it is, the batches it has appended, the value its
\* unfinished-- has read
ReaderTask(at, batch, tmp) == [pc |-> at, batch |-> batch, tmp |-> tmp]

\* the reader tasks that run in a thread of io_pool
Running == {b \in Blocks : cs_task[b].pc \in {"run", "dec"}}

\* the reader tasks submitted and not finished
Unfinished == {b \in Blocks : cs_task[b].pc \in {"queued", "run", "dec"}}

\* the work items the reader tasks have appended to works
Appended == {<<b, k>> : b \in Blocks, k \in 1..MaxBatches} \cap
            UNION {{<<b, k>> : k \in 1..cs_task[b].batch} : b \in Blocks}

InitLines ==
  /\ cs_pc = "submit"
  /\ cs_blocks \in 1..MaxBlocks
  /\ cs_batches \in 1..MaxBatches
  /\ cs_block = 0
  /\ cs_tmp = 0
  /\ cs_unfinished = 0
  /\ cs_mtx = "free"
  /\ cs_task = [b \in Blocks |-> ReaderTask("unsubmitted", 0, 0)]
  /\ cs_works = <<>>
  /\ cs_pushed = <<>>
  /\ SearchIdle
  /\ CodecIdle
  /\ LevelsIdle
  /\ NormalizeIdle
  /\ TablesIdle
  /\ FramesIdle

LinesRest == <<msvars, cdvars, lvvars, nzvars, tbvars, frvars>>

\* line 188, and the read of unfinished++ (line 190): unfinished is a plain
\* size_t and this thread does not hold mtx, so the increment is a read and
\* a write that the reader tasks can come between
SubmitRead ==
  /\ cs_pc = "submit"
  /\ IF cs_block < cs_blocks
     THEN cs_tmp' = cs_unfinished /\ cs_pc' = "increment"
     ELSE cs_tmp' = cs_tmp /\ cs_pc' = "lock"
  /\ UNCHANGED <<cs_blocks, cs_batches, cs_block, cs_unfinished, cs_mtx, cs_task,
                 cs_works, cs_pushed, LinesRest>>

\* the write of unfinished++
SubmitWrite ==
  /\ cs_pc = "increment"
  /\ cs_unfinished' = cs_tmp + 1
  /\ cs_pc' = "push_task"
  /\ UNCHANGED <<cs_blocks, cs_batches, cs_block, cs_tmp, cs_mtx, cs_task, cs_works,
                 cs_pushed, LinesRest>>

\* io_pool.push_task(...), line 191
PushTask ==
  /\ cs_pc = "push_task"
  /\ cs_block' = cs_block + 1
  /\ cs_task' = [cs_task EXCEPT ![cs_block + 1] = ReaderTask("queued", 0, 0)]
  /\ cs_pc' = "submit"
  /\ UNCHANGED <<cs_blocks, cs_batches, cs_tmp, cs_unfinished, cs_mtx, cs_works,
                 cs_pushed, LinesRest>>

\* a thread of io_pool takes the task of block b
TaskStart(b) ==
  /\ cs_task[b].pc = "queued"
  /\ Cardinality(Running) < IOThreads
  /\ cs_task' = [cs_task EXCEPT ![b] = ReaderTask("run", 0, 0)]
  /\ UNCHANGED <<cs_pc, cs_blocks, cs_batches, cs_block, cs_tmp, cs_unfinished, cs_mtx,
                 cs_works, cs_pushed, LinesRest>>

\* lines 194-210: read a batch, then works.push_back under mtx, notify_one
TaskAppend(b) ==
  /\ cs_task[b].pc = "run"
  /\ cs_task[b].batch < cs_batches
  /\ cs_mtx = "free"
  /\ cs_works' = Append(cs_works, <<b, cs_task[b].batch + 1>>)
  /\ cs_task' = [cs_task EXCEPT ![b] = ReaderTask("run", cs_task[b].batch + 1, 0)]
  /\ UNCHANGED <<cs_pc, cs_blocks, cs_batches, cs_block, cs_tmp, cs_unfinished, cs_mtx,
                 cs_pushed, LinesRest>>

\* lines 212-213: lock_guard lck(mtx) and the read of unfinished--
TaskDecRead(b) ==
  /\ cs_task[b].pc = "run"
  /\ cs_task[b].batch = cs_batches
  /\ cs_mtx = "free"
  /\ cs_mtx' = "reader"
  /\ cs_task' = [cs_task EXCEPT ![b] = ReaderTask("dec", cs_task[b].batch, cs_unfinished)]
  /\ UNCHANGED <<cs_pc, cs_blocks, cs_batches, cs_block, cs_tmp, cs_unfinished, cs_works,
                 cs_pushed, LinesRest>>

\* lines 213-215: the write of unfinished--, the unlock, notify_one.  The
\* size_t is kept as the value nearest to 0 of its class modulo 2^64: -1
\* stands for 2^64 - 1
TaskDecWrite(b) ==
  /\ cs_task[b].pc = "dec"
  /\ cs_unfinished' = cs_task[b].tmp - 1
  /\ cs_mtx' = "free"
  /\ cs_task' = [cs_task EXCEPT ![b] = ReaderTask("done", cs_task[b].batch, 0)]
  /\ UNCHANGED <<cs_pc, cs_blocks, cs_batches, cs_block, cs_tmp, cs_works, cs_pushed,
                 LinesRest>>

\* line 219: std::unique_lock lck(mtx)
MainLock ==
  /\ cs_pc = "lock"
  /\ cs_mtx = "free"
  /\ cs_mtx' = "main"
  /\ cs_pc' = "check"
  /\ UNCHANGED <<cs_blocks, cs_batches, cs_block, cs_tmp, cs_unfinished, cs_task,
                 cs_works, cs_pushed, LinesRest>>

\* lines 220-221: while (unfinished), then the predicate of cv.wait with
\* the lock held; the wait releases the lock
MainCheck ==
  /\ cs_pc = "check"
  /\ IF cs_unfinished = 0
     THEN cs_pc' = "wait_for_tasks" /\ cs_mtx' = "free"
     ELSE IF Len(cs_works) # 0
     THEN cs_pc' = "drain" /\ cs_mtx' = cs_mtx
     ELSE cs_pc' = "wait" /\ cs_mtx' = "free"
  /\ UNCHANGED <<cs_blocks, cs_batches, cs_block, cs_tmp, cs_unfinished, cs_task,
                 cs_works, cs_pushed, LinesRest>>

\* line 221: cv.wait returns, with the lock, once unfinished == 0 ||
\* works.size() holds
MainWake ==
  /\ cs_pc = "wait"
  /\ cs_mtx = "free"
  /\ cs_unfinished = 0 \/ Len(cs_works) # 0
  /\ cs_mtx' = "main"
  /\ cs_pc' = "drain"
  /\ UNCHANGED <<cs_blocks, cs_batches, cs_block, cs_tmp, cs_unfinished, cs_task,
                 cs_works, cs_pushed, LinesRest>>

\* lines 222-225: every item of works goes to thread_queue.Push
MainDrain ==
  /\ cs_pc = "drain"
  /\ cs_pushed' = cs_pushed \o cs_works
  /\ cs_works' = <<>>
  /\ cs_pc' = "check"
  /\ UNCHANGED <<cs_blocks, cs_batches, cs_block, cs_tmp, cs_unfinished, cs_mtx,
                 cs_task, LinesRest>>

\* line 228: io_pool.wait_for_tasks()
WaitForTasks ==
  /\ cs_pc = "wait_for_tasks"
  /\ \A b \in Blocks : cs_task[b].pc = "done"
  /\ cs_pc' = "wait_all"
  /\ UNCHANGED <<cs_blocks, cs_batches, cs_block, cs_tmp, cs_unfinished, cs_mtx,
                 cs_task, cs_works, cs_pushed, LinesRest>>

\* line 229: thread_queue.WaitAll()
WaitAll ==
  /\ cs_pc = "wait_all"
  /\ cs_pc' = "done"
  /\ UNCHANGED <<cs_blocks, cs_batches, cs_block, cs_tmp, cs_unfinished, cs_mtx,
                 cs_task, cs_works, cs_pushed, LinesRest>>

NextLines ==
  \/ SubmitRead
  \/ SubmitWrite
  \/ PushTask
  \/ \E b \in Blocks : TaskStart(b)
  \/ \E b \in Blocks : TaskAppend(b)
  \/ \E b \in Blocks : TaskDecRead(b)
  \/ \E b \in Blocks : TaskDecWrite(b)
  \/ MainLock
  \/ MainCheck
  \/ MainWake
  \/ MainDrain
  \/ WaitForTasks
  \/ WaitAll

SpecLines == InitLines /\ [][NextLines]_vars

\* every thread that can take a step takes one in the end
SpecLinesLive == SpecLines /\ WF_vars(NextLines)

\* how often the work item w went to thread_queue.Push
TimesPushed(w) == Cardinality({n \in 1..Len(cs_pushed) : cs_pushed[n] = w})

\* C29: under every interleaving, every work item a reader task appended
\* to works has gone to thread_queue.Push exactly once when
\* thread_queue.WaitAll() is reached.
C29_Original ==
  cs_pc \in {"wait_all", "done"} =>
    /\ Appended = (Blocks \X (1..cs_batches))
    /\ \A w \in Appended : TimesPushed(w) = 1

\* while the thread is in the loop of the lines 219-227, unfinished is the
\* number of the submitted reader tasks that have not finished
CounterExact ==
  cs_pc \in {"lock", "check", "wait", "drain"} => cs_unfinished = Cardinality(Unfinished)

\* C30: under every interleaving, unfinished equals the number of the
\* submitted reader tasks that have not finished, and the loop
\* while (unfinished) is left in the end: CalculateSameLines goes on to
\* thread_queue.WaitAll() and returns.
C30_Original == [](CounterExact) /\ <>(cs_pc = "done")

====
